---- MODULE Spec2Model ----
(***************************************************************************)
(* Model of the Pendo capture / distribution / replay backend              *)
(*   src/backend/simulator/simulate.py      Simulator, record_and_replay   *)
(*   src/backend/simulator/pendo_capture.py PendoCapture, PendoReplay      *)
(* The specifications share the variables; each one drives one part and    *)
(* leaves the others at their initial value:                               *)
(*   SpecPlan    the three distribution planners                           *)
(*   SpecCodec   encode_to_jzb / decode_jzb                                *)
(*   SpecReplay  PendoReplay.bulk_replay and the sessions it runs          *)
(*   SpecRun     record_and_replay and Simulator.bulk_simulate             *)
(*   SpecCapture the route handlers of the recording                       *)
(*   SpecSend    send_pendo_request on the objects of the templates        *)
(*   SpecJourney the sessions of bulk_replay: timestamps and identities    *)
(*   SpecRecord  the steps of record_workflow_templates and its failure log*)
(***************************************************************************)
EXTENDS Integers, Sequences, FiniteSets, TLC

VARIABLES
    pl_pc,      \* planner driver: "idle" | "input" | "done"
    pl_in,      \* planner input: [kind, user_count, paths, segs, accts]
    pl_out,     \* planner outcome: [err, plan]
    cd_pc,      \* codec driver: "idle" | "events" | "raw" | "decoded"
    cd_src,     \* where the raw string comes from: "events" (encoded) | "raw"
    cd_events,  \* the event list handed to encode_to_jzb
    cd_raw,     \* the string handed to decode_jzb
    cd_out,     \* how decode_jzb ended: [raised, val, unk]
    rp_pc,      \* bulk_replay: "idle" | "call" | "batch" | "gather" | "done"
    rp_in,      \* its arguments and the template file: [templates, plan, batch_size]
    rp_sessions,\* all_sessions after the shuffle: [path, sent, status] each
    rp_next,    \* i of the batch loop: the sessions before all_sessions[i] are done
    rp_batches, \* history: how many batches were dispatched
    rp_failed,  \* history: how many outbound requests failed
    rp_report,  \* how bulk_replay ended: [returned, raised, value]
    rn_pc,      \* record_and_replay: "idle" | "call" | "recorded" | "done"
    rn_in,      \* its arguments and what the browser captures
    rn_recording, \* recording_result: [templates_recorded, failed_actions]
    rn_plan,    \* path_distributions of bulk_simulate
    rn_replay,  \* history: bulk_simulate was called
    rn_requests,\* history: how many outbound requests the replay sent
    rn_result,  \* how record_and_replay ended: [returned, raised, success, error, ...]
    rn_strategy,\* history: the planner bulk_simulate chose
    rn_response,\* the DirectExecutionResponse of execute_workflow
    \* -- recording one path: the route handlers
    cp_pc,      \* "idle", "recording" or "done"
    cp_in,      \* the handler, the path id, the intercepted requests
    cp_calls,   \* per request, the invocation of the handler
    cp_captured,\* PendoCapture.captured_requests: path id -> templates
    cp_sequence,\* the counter `sequence` of intercept_for_path
    cp_events,  \* len(PendoEventInterceptor.captured_events)
    \* -- send_pendo_request on the objects of the stored templates
    sd_pc,      \* "idle", "replay" or "done"
    sd_in,      \* the stored templates, the number of sessions, the base time
    sd_heap,    \* the objects of the stored templates
    sd_pos,     \* per session, how many requests it has sent
    sd_sent,    \* the query of every request sent, in order
    \* -- the sessions of bulk_replay: base timestamps, identities, responses
    jn_pc,      \* "idle", "sessions", "replay" or "done"
    jn_in,      \* the stored templates, the user count, days_back, now
    jn_calls,   \* how many times generate_user_session_ids was called
    jn_sessions,\* all_sessions: [user_timestamp, random_seconds_back, session_ids]
    jn_cur,     \* the running replay_user_journey: [session, sent, current_timestamp]
    jn_last,    \* the request sent last: [session, query, outcome, classified]
    \* -- record_workflow_templates: the steps of the paths
    rc_pc,      \* "idle", "path", "steps" or "done"
    rc_in,      \* test_mode, the paths with their steps
    rc_path,    \* the path being recorded
    rc_turns,   \* history: per path, how many turns of the step loop ran
    rc_log,     \* failed_actions_log: path id -> failure entries
    rc_result   \* what record_workflow_templates returned

plan_vars == <<pl_pc, pl_in, pl_out>>
codec_vars == <<cd_pc, cd_src, cd_events, cd_raw, cd_out>>
replay_vars == <<rp_pc, rp_in, rp_sessions, rp_next, rp_batches, rp_failed, rp_report>>
run_vars == <<rn_pc, rn_in, rn_recording, rn_plan, rn_replay, rn_requests, rn_result,
              rn_strategy, rn_response>>
capture_vars == <<cp_pc, cp_in, cp_calls, cp_captured, cp_sequence, cp_events>>
send_vars == <<sd_pc, sd_in, sd_heap, sd_pos, sd_sent>>
journey_vars == <<jn_pc, jn_in, jn_calls, jn_sessions, jn_cur, jn_last>>
record_vars == <<rc_pc, rc_in, rc_path, rc_turns, rc_log, rc_result>>
vars == <<plan_vars, codec_vars, replay_vars, run_vars, capture_vars, send_vars, journey_vars,
          record_vars>>

(***************************************************************************)
(* Bounds of the model                                                     *)
(***************************************************************************)
\* largest total user count handed to a planner
MaxTotal == 5
\* largest percentage weight of a path (flat strategy)
MaxWeight == 3
\* largest segment percentage
MaxPct == 1
\* largest path preference inside a segment
MaxPref == 1
\* largest user_count of an account
MaxAcctUsers == 2
\* longest event list handed to encode_to_jzb
MaxEvents == 2
\* longest arbitrary string handed to decode_jzb
MaxRawLen == 3
\* most characters cut off the end of an encoded string
MaxCut == 3

\* most users of the path whose sessions are materialized
MaxJourneyUsers == 2
\* largest days_back of bulk_replay
MaxDaysBack == 1
\* most steps of a recorded path
MaxSteps == 2

\* the path ids of the workflow, in the order of user_journey_paths
PathIds == 1..3
\* how many segments / accounts an input may hold
SegIds == 1..2
AcctIds == 1..2

\* percentage = None (schemas.UserJourneyPath.percentage is Optional)
None == 0 - 1

(***************************************************************************)
(* Arithmetic helpers                                                      *)
(***************************************************************************)
RECURSIVE Pow2(_)
Pow2(k) == IF k <= 0 THEN 1 ELSE 2 * Pow2(k - 1)

RECURSIVE Pow2Mod(_, _)
\* 2^t mod m, without forming 2^t
Pow2Mod(t, m) == IF t <= 0 THEN 1 % m ELSE (2 * Pow2Mod(t - 1, m)) % m

RECURSIVE FloorLog2Up(_, _, _)
\* largest e >= start with s * 2^(e) <= w   (w >= s > 0)
FloorLog2Up(w, s, e) == IF s * Pow2(e + 1) <= w THEN FloorLog2Up(w, s, e + 1) ELSE e

RECURSIVE FloorLog2Down(_, _, _)
\* smallest d >= start with w * 2^d >= s    (0 < w < s)
FloorLog2Down(w, s, d) == IF w * Pow2(d) < s THEN FloorLog2Down(w, s, d + 1) ELSE d

\* floor(log2(w / s)) for integers w, s > 0
FloorLog2(w, s) == IF w >= s THEN FloorLog2Up(w, s, 0) ELSE 0 - FloorLog2Down(w, s, 0)

\* The signed rounding error of the IEEE-754 double quotient w / s, as the
\* integer rho with  w/s - fl(w/s) = rho / (s * 2^t),  t = 52 - FloorLog2(w, s):
\* the remainder of the 53-bit long division, rounded to nearest, ties to even.
DivError(w, s) ==
    LET t   == 52 - FloorLog2(w, s)
        rem == (w * Pow2Mod(t, s)) % s
        odd == ((w * Pow2Mod(t, 2 * s)) % (2 * s)) >= s
    IN  IF 2 * rem < s THEN rem
        ELSE IF 2 * rem > s THEN rem - s
        ELSE IF odd THEN rem - s ELSE rem

\* Python's  int(n * (w / s))  on doubles, for integers n >= 0, 0 <= w <= s, s > 0.
\* When s does not divide n*w the double product is within 2^-52 of n*w/s and
\* truncates to the exact floor.  When it does, the product is a double next to
\* the integer k = n*w/s: it truncates to k - 1 exactly when the quotient was
\* rounded down (rho > 0) by more than half the gap below k.
PyTruncMulDiv(n, w, s) ==
    IF (n * w) % s # 0 \/ n * w = 0 THEN (n * w) \div s
    ELSE LET k   == (n * w) \div s
             rho == DivError(w, s)
             j   == FloorLog2(k, 1)
             c   == IF k = Pow2(j) THEN j - FloorLog2(w, s) - 2
                                   ELSE j - FloorLog2(w, s) - 1
             lhs == n * rho * (IF c < 0 THEN Pow2(0 - c) ELSE 1)
             rhs == s * (IF c > 0 THEN Pow2(c) ELSE 1)
         IN  IF rho <= 0 \/ lhs <= rhs THEN k ELSE k - 1

RECURSIVE FoldRange(_, _, _, _, _)
\* a loop over seq[lo..hi] that carries a state: state = Step(state, item) for
\* each item in order.  The range is run by halves, and the state the first
\* half leaves is evaluated (left = left) before the second half starts, so the
\* depth of the evaluation grows with the logarithm of the length.
FoldRange(Step(_, _), state, seq, lo, hi) ==
    IF lo > hi THEN state
    ELSE IF lo = hi THEN Step(state, seq[lo])
    ELSE LET mid  == (lo + hi) \div 2
             left == FoldRange(Step, state, seq, lo, mid)
         IN  IF left = left THEN FoldRange(Step, left, seq, mid + 1, hi) ELSE left

FoldLeft(Step(_, _), state, seq) == FoldRange(Step, state, seq, 1, Len(seq))

RECURSIVE SumSeq(_)
SumSeq(s) == IF s = <<>> THEN 0 ELSE Head(s) + SumSeq(Tail(s))

RECURSIVE SumFun(_)
\* sum(d.values())
SumFun(f) ==
    IF DOMAIN f = {} THEN 0
    ELSE LET k == CHOOSE x \in DOMAIN f : TRUE
         IN  f[k] + SumFun([x \in DOMAIN f \ {k} |-> f[x]])

\* mutant: the last key that holds the largest value
LastLargestPath(f) ==
    CHOOSE k \in DOMAIN f :
        \A j \in DOMAIN f : f[j] < f[k] \/ (f[j] = f[k] /\ j <= k)

\* max(d.keys(), key=lambda k: d[k]): the first key, in insertion order, that
\* holds the largest value (keys are inserted in path order)
LargestPath(f) ==
    CHOOSE k \in DOMAIN f :
        \A j \in DOMAIN f : f[j] < f[k] \/ (f[j] = f[k] /\ k <= j)

(***************************************************************************)
(* WireCodec, text layer: pendo_capture.py, encode_to_jzb / decode_jzb     *)
(* A text is a sequence of character codes, a byte string a sequence of    *)
(* 0..255.  NonAscii stands for any character above U+007F.                *)
(***************************************************************************)
NonAscii == 65533

IsAlnum(c) == (48 <= c /\ c <= 57) \/ (65 <= c /\ c <= 90) \/ (97 <= c /\ c <= 122)

\* the uppercase hexadecimal digit of a nibble, as quote() writes it
HexDigit(n) == IF n < 10 THEN 48 + n ELSE 55 + n

\* the value of a hexadecimal digit (either case), 16 when c is none
HexValue(c) ==
    IF 48 <= c /\ c <= 57 THEN c - 48
    ELSE IF 65 <= c /\ c <= 70 THEN c - 55
    ELSE IF 97 <= c /\ c <= 102 THEN c - 87
    ELSE 16

\* urllib.parse.quote(text, safe=''): letters, digits and "_.-~" are kept,
\* every other character is written %XX
QuoteStep(out, c) ==
    IF IsAlnum(c) \/ c \in {95, 46, 45, 126}
    THEN Append(out, c)
    ELSE out \o <<37, HexDigit(c \div 16), HexDigit(c % 16)>>

Quote(text) == FoldLeft(QuoteStep, <<>>, text)

\* urllib.parse.unquote(text): %XX becomes the character XX (a byte above
\* 0x7F decodes to a non-ASCII character); a % not followed by two
\* hexadecimal digits is kept.  esc is the part of an escape read so far
UnquoteStep(st, c) ==
    IF st.esc = <<>>
    THEN IF c = 37 THEN [out |-> st.out, esc |-> <<37>>]
         ELSE [out |-> Append(st.out, c), esc |-> <<>>]
    ELSE IF HexValue(c) < 16
    THEN IF Len(st.esc) = 1 THEN [out |-> st.out, esc |-> <<37, c>>]
         ELSE LET b == 16 * HexValue(st.esc[2]) + HexValue(c)
              IN  [out |-> Append(st.out, IF b < 128 THEN b ELSE NonAscii), esc |-> <<>>]
    ELSE IF c = 37 THEN [out |-> st.out \o st.esc, esc |-> <<37>>]
    ELSE [out |-> st.out \o st.esc \o <<c>>, esc |-> <<>>]

UnquoteEnd(st) == st.out \o st.esc

Unquote(text) == UnquoteEnd(FoldLeft(UnquoteStep, [out |-> <<>>, esc |-> <<>>], text))

\* str.replace(old, new) for single characters
Replace(text, old, new) == [i \in DOMAIN text |-> IF text[i] = old THEN new ELSE text[i]]

RECURSIVE RStripPad(_)
\* str.rstrip('=')
RStripPad(text) ==
    IF text # <<>> /\ text[Len(text)] = 61 THEN RStripPad(SubSeq(text, 1, Len(text) - 1))
    ELSE text

\* decode_jzb without its padding step
NoPadding(text) == text

\* the padding of decode_jzb: '=' * (4 - len % 4) when len % 4 is not 0
PadToFour(text) ==
    LET missing_padding == Len(text) % 4
    IN  IF missing_padding # 0
        THEN text \o [i \in 1..(4 - missing_padding) |-> 61]
        ELSE text

\* the URL-safe base64 character of a 6-bit value
B64UrlChar(v) ==
    IF v < 26 THEN 65 + v
    ELSE IF v < 52 THEN 71 + v
    ELSE IF v < 62 THEN v - 4
    ELSE IF v = 62 THEN 45 ELSE 95

\* the 6-bit value of a standard base64 character, 64 when c is none
B64Value(c) ==
    IF 65 <= c /\ c <= 90 THEN c - 65
    ELSE IF 97 <= c /\ c <= 122 THEN c - 71
    ELSE IF 48 <= c /\ c <= 57 THEN c + 4
    ELSE IF c = 43 THEN 62
    ELSE IF c = 47 THEN 63
    ELSE 64

\* base64.urlsafe_b64encode, one byte: three bytes make four characters; rest
\* holds the bytes of an incomplete group
B64EncodeStep(st, byte) ==
    IF Len(st.rest) < 2 THEN [st EXCEPT !.rest = Append(st.rest, byte)]
    ELSE [out  |-> st.out \o <<B64UrlChar(st.rest[1] \div 4),
                               B64UrlChar((st.rest[1] % 4) * 16 + st.rest[2] \div 16),
                               B64UrlChar((st.rest[2] % 16) * 4 + byte \div 64),
                               B64UrlChar(byte % 64)>>,
          rest |-> <<>>]

\* the last group, '=' padded
B64EncodeEnd(st) ==
    IF st.rest = <<>> THEN st.out
    ELSE IF Len(st.rest) = 1
    THEN st.out \o <<B64UrlChar(st.rest[1] \div 4), B64UrlChar((st.rest[1] % 4) * 16), 61, 61>>
    ELSE st.out \o <<B64UrlChar(st.rest[1] \div 4),
                     B64UrlChar((st.rest[1] % 4) * 16 + st.rest[2] \div 16),
                     B64UrlChar((st.rest[2] % 16) * 4), 61>>

\* base64.urlsafe_b64encode(bytes)
UrlsafeB64Encode(bytes) ==
    B64EncodeEnd(FoldLeft(B64EncodeStep, [out |-> <<>>, rest |-> <<>>], bytes))

\* binascii.a2b_base64 (not strict), the scan of base64.b64decode: characters
\* outside the alphabet are skipped, a completed pad sequence ends the scan
\* (done).  quad_pos, leftchar, pads as in CPython; out is the bytes produced
A2bStep(st, c) ==
    LET v == B64Value(c)
    IN  IF st.done THEN st
        ELSE IF c = 61
        THEN IF st.quad_pos >= 2 /\ st.quad_pos + st.pads + 1 >= 4
             THEN [st EXCEPT !.done = TRUE]
             ELSE [st EXCEPT !.pads = IF st.quad_pos >= 2 THEN st.pads + 1 ELSE st.pads]
        ELSE IF v >= 64 THEN st
        ELSE IF st.quad_pos = 0
        THEN [st EXCEPT !.quad_pos = 1, !.leftchar = v, !.pads = 0]
        ELSE IF st.quad_pos = 1
        THEN [st EXCEPT !.quad_pos = 2, !.leftchar = v % 16, !.pads = 0,
                        !.out = Append(st.out, st.leftchar * 4 + v \div 16)]
        ELSE IF st.quad_pos = 2
        THEN [st EXCEPT !.quad_pos = 3, !.leftchar = v % 4, !.pads = 0,
                        !.out = Append(st.out, st.leftchar * 16 + v \div 4)]
        ELSE [st EXCEPT !.quad_pos = 0, !.leftchar = 0, !.pads = 0,
                        !.out = Append(st.out, st.leftchar * 64 + v)]

\* data left in a partial quad at the end of the text is an error
A2bEnd(st) == [ok |-> st.done \/ st.quad_pos = 0, val |-> st.out]

A2bBase64(text) ==
    A2bEnd(FoldLeft(A2bStep, [quad_pos |-> 0, leftchar |-> 0, pads |-> 0,
                              out |-> <<>>, done |-> FALSE], text))

\* base64.b64decode(text): a str with a non-ASCII character is refused
\* (ValueError) before the scan
B64Decode(text) ==
    IF \E i \in DOMAIN text : text[i] >= 128
    THEN [ok |-> FALSE, val |-> <<>>]
    ELSE A2bBase64(text)

(***************************************************************************)
(* WireCodec, byte layer: zlib / gzip containers and UTF-8                 *)
(* The compressor is modelled as writing stored deflate blocks (a valid    *)
(* deflate stream, the one zlib writes at level 0); the containers around  *)
(* it, their checksums and the decompressor's checks are modelled byte     *)
(* for byte.  Huffman-coded blocks are outside the model: the inputs of    *)
(* the specifications never make a decompressor meet one (outcome unk).    *)
(***************************************************************************)
\* the outcome of a step that may raise: ok, the value, and unk when the input
\* left the modelled subset of the format
Failed == [ok |-> FALSE, val |-> <<>>, unk |-> FALSE]
Ok(v) == [ok |-> TRUE, val |-> v, unk |-> FALSE]
Unknown == [ok |-> FALSE, val |-> <<>>, unk |-> TRUE]

\* the two running sums of zlib's Adler-32, modulo 65521
Adler32Step(ab, byte) ==
    LET a == (ab[1] + byte) % 65521
    IN  <<a, (ab[2] + a) % 65521>>

\* the Adler-32 trailer of a zlib stream: (b << 16 | a), big-endian
Adler32Bytes(ab) == <<ab[2] \div 256, ab[2] % 256, ab[1] \div 256, ab[1] % 256>>

Adler32(bytes) == Adler32Bytes(FoldLeft(Adler32Step, <<1, 0>>, bytes))

RECURSIVE XorInt(_, _)
\* bitwise exclusive or of two naturals
XorInt(x, y) ==
    IF x = 0 THEN y
    ELSE IF y = 0 THEN x
    ELSE ((x + y) % 2) + 2 * XorInt(x \div 2, y \div 2)

RECURSIVE Crc32Round(_, _)
\* n steps of the reflected CRC-32 (polynomial 0xEDB88320) on the word
\* crc = <<low 16 bits, high 16 bits>>
Crc32Round(crc, n) ==
    IF n = 0 THEN crc
    ELSE IF crc[1] % 2 = 1
    THEN Crc32Round(<<XorInt(crc[1] \div 2 + (crc[2] % 2) * 32768, 33568),
                      XorInt(crc[2] \div 2, 60856)>>, n - 1)
    ELSE Crc32Round(<<crc[1] \div 2 + (crc[2] % 2) * 32768, crc[2] \div 2>>, n - 1)

\* one byte of input: the byte is folded into the low bits, then 8 steps
Crc32Step(crc, byte) == Crc32Round(<<XorInt(crc[1], byte), crc[2]>>, 8)

\* the final complement of the word, as the 4 little-endian bytes of a gzip
\* trailer
Crc32Bytes(crc) ==
    <<(65535 - crc[1]) % 256, (65535 - crc[1]) \div 256,
      (65535 - crc[2]) % 256, (65535 - crc[2]) \div 256>>

\* zlib.crc32(bytes)
Crc32(bytes) == Crc32Bytes(FoldLeft(Crc32Step, <<65535, 65535>>, bytes))

\* one stored deflate block holding the data, marked final
DeflateStored(data) ==
    <<1, Len(data) % 256, Len(data) \div 256,
         255 - (Len(data) % 256), 255 - (Len(data) \div 256)>> \o data

RECURSIVE InflateRaw(_, _)
\* inflate of a raw deflate stream: [ok, val (the data), rest (the bytes after
\* the final block), unk (a Huffman-coded block was met)].  The one
\* Huffman-coded block read is the final fixed-code block that holds only the
\* end-of-block code (03 and a byte whose two low bits are 0)
InflateRaw(bytes, out) ==
    IF bytes = <<>> THEN [ok |-> FALSE, val |-> <<>>, rest |-> <<>>, unk |-> FALSE]
    ELSE LET bfinal == bytes[1] % 2
             btype  == (bytes[1] \div 2) % 4
         IN  IF bytes[1] = 3 /\ Len(bytes) >= 2 /\ bytes[2] % 4 = 0
             THEN [ok |-> TRUE, val |-> out, rest |-> SubSeq(bytes, 3, Len(bytes)),
                   unk |-> FALSE]
             ELSE IF btype \in {1, 2}
             THEN [ok |-> FALSE, val |-> <<>>, rest |-> <<>>, unk |-> TRUE]
             ELSE IF btype = 3 \/ Len(bytes) < 5
             THEN [ok |-> FALSE, val |-> <<>>, rest |-> <<>>, unk |-> FALSE]
             ELSE LET len  == bytes[2] + 256 * bytes[3]
                      nlen == bytes[4] + 256 * bytes[5]
                  IN  IF len + nlen # 65535 \/ Len(bytes) < 5 + len
                      THEN [ok |-> FALSE, val |-> <<>>, rest |-> <<>>, unk |-> FALSE]
                      ELSE IF bfinal = 1
                      THEN [ok |-> TRUE, val |-> out \o SubSeq(bytes, 6, 5 + len),
                            rest |-> SubSeq(bytes, 6 + len, Len(bytes)), unk |-> FALSE]
                      ELSE InflateRaw(SubSeq(bytes, 6 + len, Len(bytes)),
                                      out \o SubSeq(bytes, 6, 5 + len))

\* zlib.compress(data): header 78 9C, deflate stream, Adler-32
ZlibCompress(data) == <<120, 156>> \o DeflateStored(data) \o Adler32(data)

\* the end of a raw inflate: the data, whatever follows the final block
RawEnd(r) == IF r.unk THEN Unknown ELSE IF r.ok THEN Ok(r.val) ELSE Failed

\* the end of a zlib inflate: the 4 bytes after the final block are the
\* Adler-32 of the data
ZlibEnd(r) ==
    IF r.unk THEN Unknown
    ELSE IF r.ok /\ Len(r.rest) >= 4 /\ SubSeq(r.rest, 1, 4) = Adler32(r.val) THEN Ok(r.val)
    ELSE Failed

\* zlib.decompress(bytes, wbits): a raw deflate stream for wbits < 0, a zlib
\* stream whose window fits wbits for wbits > 0; bytes after the end of the
\* stream are ignored
ZlibDecompress(bytes, wbits) ==
    IF wbits < 0 THEN RawEnd(InflateRaw(bytes, <<>>))
    ELSE IF Len(bytes) < 2 THEN Failed
    ELSE IF \/ (256 * bytes[1] + bytes[2]) % 31 # 0
            \/ bytes[1] % 16 # 8
            \/ bytes[1] \div 16 + 8 > wbits
            \/ (bytes[2] \div 32) % 2 = 1
    THEN Failed
    ELSE ZlibEnd(InflateRaw(SubSeq(bytes, 3, Len(bytes)), <<>>))

\* a gzip member with no optional header field: 1F 8B 08 00, mtime, xfl, os,
\* deflate stream, CRC-32, ISIZE
GzipCompress(data) ==
    <<31, 139, 8, 0, 0, 0, 0, 0, 2, 255>> \o DeflateStored(data) \o Crc32(data)
        \o <<Len(data) % 256, Len(data) \div 256, 0, 0>>

RECURSIVE LStripZeros(_)
\* bytes.lstrip(b"\x00")
LStripZeros(bytes) ==
    IF bytes # <<>> /\ Head(bytes) = 0 THEN LStripZeros(Tail(bytes)) ELSE bytes

RECURSIVE GzipMembers(_, _)
\* the end of a gzip member: CRC-32 and length of the data, then the next
\* member after any zero bytes
GzipMemberEnd(r, out) ==
    IF r.unk THEN Unknown
    ELSE IF /\ r.ok /\ Len(r.rest) >= 8
            /\ SubSeq(r.rest, 1, 4) = Crc32(r.val)
            /\ SubSeq(r.rest, 5, 8) = <<Len(r.val) % 256, Len(r.val) \div 256, 0, 0>>
    THEN GzipMembers(LStripZeros(SubSeq(r.rest, 9, Len(r.rest))), out \o r.val)
    ELSE Failed

\* the member loop of gzip.decompress: no data left ends it; a member needs the
\* magic 1F 8B, method 8, a complete deflate stream and a matching CRC-32 and
\* length.  Optional header fields (FHCRC, FEXTRA, FNAME, FCOMMENT) are
\* outside the model.
GzipMembers(bytes, out) ==
    IF bytes = <<>> THEN Ok(out)
    ELSE IF Len(bytes) < 10 \/ bytes[1] # 31 \/ bytes[2] # 139 \/ bytes[3] # 8 THEN Failed
    ELSE IF (bytes[4] \div 2) % 16 # 0 THEN Unknown
    ELSE GzipMemberEnd(InflateRaw(SubSeq(bytes, 11, Len(bytes)), <<>>), out)

\* gzip.decompress(bytes)
GzipDecompress(bytes) == GzipMembers(bytes, <<>>)

\* bytes.decode('utf-8'), one byte: need is the number of continuation bytes
\* still due, lo..hi the range the next one must lie in (well-formed UTF-8:
\* no overlong form, no surrogate, nothing above U+10FFFF)
Utf8Step(st, b) ==
    IF ~st.ok THEN st
    ELSE IF st.need = 0
    THEN IF b < 128 THEN [st EXCEPT !.out = Append(st.out, b)]
         ELSE IF 194 <= b /\ b <= 223 THEN [st EXCEPT !.need = 1, !.lo = 128, !.hi = 191]
         ELSE IF 224 <= b /\ b <= 239
         THEN [st EXCEPT !.need = 2, !.lo = IF b = 224 THEN 160 ELSE 128,
                         !.hi = IF b = 237 THEN 159 ELSE 191]
         ELSE IF 240 <= b /\ b <= 244
         THEN [st EXCEPT !.need = 3, !.lo = IF b = 240 THEN 144 ELSE 128,
                         !.hi = IF b = 244 THEN 143 ELSE 191]
         ELSE [st EXCEPT !.ok = FALSE]
    ELSE IF st.lo <= b /\ b <= st.hi
    THEN [st EXCEPT !.need = st.need - 1, !.lo = 128, !.hi = 191,
                    !.out = IF st.need = 1 THEN Append(st.out, NonAscii) ELSE st.out]
    ELSE [st EXCEPT !.ok = FALSE]

\* a text that ends inside a character is ill-formed
Utf8End(st) == IF st.ok /\ st.need = 0 THEN Ok(st.out) ELSE Failed

\* bytes.decode('utf-8'): the code points, or a failure on ill-formed input
Utf8Decode(bytes) ==
    Utf8End(FoldLeft(Utf8Step, [ok |-> TRUE, out |-> <<>>, need |-> 0,
                                lo |-> 128, hi |-> 191], bytes))

\* str.encode('utf-8') of code points below U+10000
Utf8EncodeStep(out, c) ==
    out \o (IF c < 128 THEN <<c>>
            ELSE IF c < 2048 THEN <<192 + c \div 64, 128 + (c % 64)>>
            ELSE <<224 + c \div 4096, 128 + ((c \div 64) % 64), 128 + (c % 64)>>)

Utf8Encode(text) == FoldLeft(Utf8EncodeStep, <<>>, text)

(***************************************************************************)
(* WireCodec, JSON layer: json.dumps(events, separators=(',', ':')) and    *)
(* json.loads(json_string).  A JSON value is a record [t, n, s, kids]:     *)
(* t the type, n the integer, s the string (or the key of a member), kids  *)
(* the items of a list or the members ("pair") of an object, in order.     *)
(* Floats, NaN / Infinity and surrogate escapes are outside the model      *)
(* (outcome unk).                                                          *)
(***************************************************************************)
JNull == [t |-> "null", n |-> 0, s |-> <<>>, kids |-> <<>>]
JBool(b) == [t |-> IF b THEN "true" ELSE "false", n |-> 0, s |-> <<>>, kids |-> <<>>]
JInt(n) == [t |-> "int", n |-> n, s |-> <<>>, kids |-> <<>>]
JStr(s) == [t |-> "str", n |-> 0, s |-> s, kids |-> <<>>]
JList(kids) == [t |-> "list", n |-> 0, s |-> <<>>, kids |-> kids]
JPair(key, v) == [t |-> "pair", n |-> 0, s |-> key, kids |-> <<v>>]
JDict(pairs) == [t |-> "dict", n |-> 0, s |-> <<>>, kids |-> pairs]

RECURSIVE NatToText(_)
NatToText(n) ==
    IF n < 10 THEN <<48 + n>> ELSE Append(NatToText(n \div 10), 48 + (n % 10))

\* str(n) of an int
IntToText(n) == IF n < 0 THEN <<45>> \o NatToText(0 - n) ELSE NatToText(n)

\* the lowercase hexadecimal digit of a nibble, as '\\u{0:04x}' writes it
HexLower(n) == IF n < 10 THEN 48 + n ELSE 87 + n

\* json.encoder: one character of a string under ensure_ascii
EscapeChar(c) ==
    IF c = 34 THEN <<92, 34>>
    ELSE IF c = 92 THEN <<92, 92>>
    ELSE IF c = 10 THEN <<92, 110>>
    ELSE IF c = 13 THEN <<92, 114>>
    ELSE IF c = 9 THEN <<92, 116>>
    ELSE IF c = 8 THEN <<92, 98>>
    ELSE IF c = 12 THEN <<92, 102>>
    ELSE IF c < 32 \/ c > 126
    THEN <<92, 117, HexLower(c \div 4096), HexLower((c \div 256) % 16),
           HexLower((c \div 16) % 16), HexLower(c % 16)>>
    ELSE <<c>>

EscapeStep(out, c) == out \o EscapeChar(c)

EscapeText(text) == FoldLeft(EscapeStep, <<>>, text)

\* a string literal
DumpsStr(s) == <<34>> \o EscapeText(s) \o <<34>>

RECURSIVE JsonDumps(_)
RECURSIVE DumpsJoin(_)
\* the items of a list or members of an object, separated by ','
DumpsJoin(kids) ==
    IF kids = <<>> THEN <<>>
    ELSE IF Len(kids) = 1 THEN JsonDumps(kids[1])
    ELSE JsonDumps(Head(kids)) \o <<44>> \o DumpsJoin(Tail(kids))

\* json.dumps(v, separators=(',', ':'))
JsonDumps(v) ==
    IF v.t = "null" THEN <<110, 117, 108, 108>>
    ELSE IF v.t = "true" THEN <<116, 114, 117, 101>>
    ELSE IF v.t = "false" THEN <<102, 97, 108, 115, 101>>
    ELSE IF v.t = "int" THEN IntToText(v.n)
    ELSE IF v.t = "str" THEN DumpsStr(v.s)
    ELSE IF v.t = "pair" THEN DumpsStr(v.s) \o <<58>> \o JsonDumps(v.kids[1])
    ELSE IF v.t = "list" THEN <<91>> \o DumpsJoin(v.kids) \o <<93>>
    ELSE <<123>> \o DumpsJoin(v.kids) \o <<125>>

\* the outcome of a scan: ok, the value, end (the index after it), and unk
\* when the text left the modelled subset of JSON
ParseFail == [ok |-> FALSE, val |-> JNull, end |-> 0, unk |-> FALSE]
ParseUnknown == [ok |-> FALSE, val |-> JNull, end |-> 0, unk |-> TRUE]
Parsed(v, end) == [ok |-> TRUE, val |-> v, end |-> end, unk |-> FALSE]

RECURSIVE SkipWs(_, _)
\* json.decoder WHITESPACE.match(s, idx).end()
SkipWs(text, idx) ==
    IF idx <= Len(text) /\ text[idx] \in {32, 9, 10, 13} THEN SkipWs(text, idx + 1) ELSE idx

\* s[idx:idx + len(word)] == word
HasAt(text, idx, word) ==
    idx + Len(word) - 1 <= Len(text) /\ SubSeq(text, idx, idx + Len(word) - 1) = word

IsDigit(c) == 48 <= c /\ c <= 57

RECURSIVE ScanDigits(_, _)
\* the index after the run of digits at idx
ScanDigits(text, idx) ==
    IF idx <= Len(text) /\ IsDigit(text[idx]) THEN ScanDigits(text, idx + 1) ELSE idx

RECURSIVE DigitsValue(_, _, _)
\* int(text[from:to]) of a run of digits
DigitsValue(text, from, to) ==
    IF from >= to THEN 0
    ELSE DigitsValue(text, from, to - 1) * 10 + (text[to - 1] - 48)

\* the integer whose digits are text[start..end - 1]; a fraction or an exponent
\* after it makes a float (outside the model)
NumberEnd(text, idx, start, end) ==
    IF end <= Len(text) /\ text[end] \in {46, 69, 101} THEN ParseUnknown
    ELSE IF end - start > 6 THEN ParseUnknown
    ELSE IF start > idx THEN Parsed(JInt(0 - DigitsValue(text, start, end)), end)
    ELSE Parsed(JInt(DigitsValue(text, start, end)), end)

\* the digits of NUMBER_RE, (0|[1-9]\d*), from start
NumberDigits(text, idx, start) ==
    IF start > Len(text) \/ ~IsDigit(text[start])
    THEN IF HasAt(text, idx, <<45, 73, 110, 102, 105, 110, 105, 116, 121>>)
         THEN ParseUnknown ELSE ParseFail
    ELSE IF text[start] = 48 THEN NumberEnd(text, idx, start, start + 1)
    ELSE NumberEnd(text, idx, start, ScanDigits(text, start))

\* json.scanner NUMBER_RE at idx: an optional '-', then the digits
ScanNumber(text, idx) ==
    IF text[idx] = 45 THEN NumberDigits(text, idx, idx + 1) ELSE NumberDigits(text, idx, idx)

\* the character of a one-letter escape, 0 when e is none
UnescapeChar(e) ==
    IF e \in {34, 92, 47} THEN e
    ELSE IF e = 98 THEN 8
    ELSE IF e = 102 THEN 12
    ELSE IF e = 110 THEN 10
    ELSE IF e = 114 THEN 13
    ELSE IF e = 116 THEN 9
    ELSE 0

\* json.decoder scanstring in strict mode, one character: acc is the content
\* read so far, esc the part of an escape sequence read so far, used the
\* number of characters consumed; done once the closing quote is read
ScanStringStep(st, c) ==
    IF st.done \/ ~st.ok THEN st
    ELSE LET next == [st EXCEPT !.used = st.used + 1]
         IN  IF st.esc = <<>>
             THEN IF c = 34 THEN [next EXCEPT !.done = TRUE]
                  ELSE IF c < 32 THEN [next EXCEPT !.ok = FALSE]
                  ELSE IF c = 92 THEN [next EXCEPT !.esc = <<92>>]
                  ELSE [next EXCEPT !.acc = Append(st.acc, c)]
             ELSE IF st.esc = <<92>>
             THEN IF c = 117 THEN [next EXCEPT !.esc = <<92, 117>>]
                  ELSE IF UnescapeChar(c) = 0 THEN [next EXCEPT !.ok = FALSE]
                  ELSE [next EXCEPT !.acc = Append(st.acc, UnescapeChar(c)), !.esc = <<>>]
             ELSE IF Len(st.esc) < 5 THEN [next EXCEPT !.esc = Append(st.esc, c)]
             ELSE LET uni == 4096 * HexValue(st.esc[3]) + 256 * HexValue(st.esc[4])
                             + 16 * HexValue(st.esc[5]) + HexValue(c)
                  IN  IF \/ \E k \in 3..5 : HexValue(st.esc[k]) = 16
                         \/ HexValue(c) = 16
                         \/ (55296 <= uni /\ uni <= 57343)
                      THEN [next EXCEPT !.ok = FALSE, !.unk = TRUE]
                      ELSE [next EXCEPT !.acc = Append(st.acc, uni), !.esc = <<>>]

\* a text that ends inside the string is an error
ScanStringEnd(st, idx) ==
    IF st.unk THEN ParseUnknown
    ELSE IF st.ok /\ st.done THEN Parsed(JStr(st.acc), idx + st.used)
    ELSE ParseFail

\* scanstring(s, idx), idx after the opening quote: the string and the index
\* after its closing quote
ScanString(text, idx) ==
    ScanStringEnd(FoldRange(ScanStringStep,
                            [ok |-> TRUE, unk |-> FALSE, done |-> FALSE,
                             acc |-> <<>>, esc |-> <<>>, used |-> 0],
                            text, idx, Len(text)), idx)

RECURSIVE SetKey(_, _, _)
\* dict(pairs): a repeated key keeps its first position and takes the last value
SetKey(pairs, key, v) ==
    IF pairs = <<>> THEN <<JPair(key, v)>>
    ELSE IF Head(pairs).s = key THEN <<JPair(key, v)>> \o Tail(pairs)
    ELSE <<Head(pairs)>> \o SetKey(Tail(pairs), key, v)

RECURSIVE ScanOnce(_, _)
RECURSIVE JSONArrayItems(_, _, _)
RECURSIVE JSONObjectItems(_, _, _)

\* after an item and the whitespace behind it: ']' ends the array, ',' is
\* followed by the next item
ArrayNext(text, acc, end) ==
    IF end > Len(text) THEN ParseFail
    ELSE IF text[end] = 93 THEN Parsed(JList(acc), end + 1)
    ELSE IF text[end] = 44 THEN JSONArrayItems(text, SkipWs(text, end + 1), acc)
    ELSE ParseFail

ArrayItem(text, acc, value) ==
    IF ~value.ok THEN value
    ELSE ArrayNext(text, Append(acc, value.val), SkipWs(text, value.end))

\* the items of an array, idx at the next item
JSONArrayItems(text, idx, acc) == ArrayItem(text, acc, ScanOnce(text, idx))

ArrayStart(text, idx) ==
    IF idx <= Len(text) /\ text[idx] = 93 THEN Parsed(JList(<<>>), idx + 1)
    ELSE JSONArrayItems(text, idx, <<>>)

\* json.decoder JSONArray, idx after '['
JSONArray(text, idx) == ArrayStart(text, SkipWs(text, idx))

\* after a ',' and the whitespace behind it: the next key must open
ObjectNextKey(text, pairs, end) ==
    IF end > Len(text) \/ text[end] # 34 THEN ParseFail
    ELSE JSONObjectItems(text, end + 1, pairs)

\* after a value and the whitespace behind it: '}' ends the object, ',' is
\* followed by the next member
ObjectNext(text, pairs, end) ==
    IF end > Len(text) THEN ParseFail
    ELSE IF text[end] = 125 THEN Parsed(JDict(pairs), end + 1)
    ELSE IF text[end] # 44 THEN ParseFail
    ELSE ObjectNextKey(text, pairs, SkipWs(text, end + 1))

ObjectValue(text, acc, key, value) ==
    IF ~value.ok THEN value
    ELSE ObjectNext(text, SetKey(acc, key, value.val), SkipWs(text, value.end))

\* after a key and the whitespace behind it: ':' and the value
ObjectColon(text, acc, key, end) ==
    IF end > Len(text) \/ text[end] # 58 THEN ParseFail
    ELSE ObjectValue(text, acc, key, ScanOnce(text, SkipWs(text, end + 1)))

ObjectKey(text, acc, key) ==
    IF ~key.ok THEN key
    ELSE ObjectColon(text, acc, key.val.s, SkipWs(text, key.end))

\* the members of an object, idx after the opening quote of a key
JSONObjectItems(text, idx, acc) == ObjectKey(text, acc, ScanString(text, idx))

ObjectStart(text, idx) ==
    IF idx > Len(text) THEN ParseFail
    ELSE IF text[idx] = 125 THEN Parsed(JDict(<<>>), idx + 1)
    ELSE IF text[idx] # 34 THEN ParseFail
    ELSE JSONObjectItems(text, idx + 1, <<>>)

\* json.decoder JSONObject, idx after '{'
JSONObject(text, idx) == ObjectStart(text, SkipWs(text, idx))

\* json.scanner scan_once(s, idx)
ScanOnce(text, idx) ==
    IF idx > Len(text) THEN ParseFail
    ELSE LET c == text[idx]
         IN  IF c = 34 THEN ScanString(text, idx + 1)
             ELSE IF c = 123 THEN JSONObject(text, idx + 1)
             ELSE IF c = 91 THEN JSONArray(text, idx + 1)
             ELSE IF c = 110
             THEN IF HasAt(text, idx, <<110, 117, 108, 108>>)
                  THEN Parsed(JNull, idx + 4) ELSE ParseFail
             ELSE IF c = 116
             THEN IF HasAt(text, idx, <<116, 114, 117, 101>>)
                  THEN Parsed(JBool(TRUE), idx + 4) ELSE ParseFail
             ELSE IF c = 102
             THEN IF HasAt(text, idx, <<102, 97, 108, 115, 101>>)
                  THEN Parsed(JBool(FALSE), idx + 5) ELSE ParseFail
             ELSE IF IsDigit(c) \/ c = 45 THEN ScanNumber(text, idx)
             ELSE IF c = 78
             THEN IF HasAt(text, idx, <<78, 97, 78>>) THEN ParseUnknown ELSE ParseFail
             ELSE IF c = 73
             THEN IF HasAt(text, idx, <<73, 110, 102, 105, 110, 105, 116, 121>>)
                  THEN ParseUnknown ELSE ParseFail
             ELSE ParseFail

\* anything but whitespace after the value is an error ("Extra data")
LoadsEnd(text, value) ==
    IF ~value.ok THEN value
    ELSE IF SkipWs(text, value.end) # Len(text) + 1 THEN ParseFail
    ELSE value

\* json.loads(text): one value between optional whitespace; a leading byte
\* order mark is refused
JsonLoads(text) ==
    IF text # <<>> /\ text[1] = 65279 THEN ParseFail
    ELSE LoadsEnd(text, ScanOnce(text, SkipWs(text, 1)))

\* encode_to_jzb(events): compact JSON, zlib, URL-safe base64 without padding,
\* percent-quoted
EncodeToJzb(events) ==
    Quote(RStripPad(UrlsafeB64Encode(ZlibCompress(Utf8Encode(JsonDumps(JList(events)))))))

\* `except Exception as b64_error`: the unquoted text padded as it is
Base64Fallback(first, url_decoded) ==
    IF first.ok THEN first ELSE B64Decode(PadToFour(url_decoded))

\* the URL-safe alphabet mapped to the standard one, and padded
Base64UrlSafe(url_decoded) ==
    Base64Fallback(B64Decode(PadToFour(Replace(Replace(url_decoded, 45, 43), 95, 47))),
                   url_decoded)

\* the base64 step of decode_jzb
Base64Decoded(jzb_encoded) == Base64UrlSafe(Unquote(jzb_encoded))

\* json_string of decode_jzb: None, or a str
NoString == [some |-> FALSE, text |-> <<>>, unk |-> FALSE]
SomeString(text) == [some |-> TRUE, text |-> text, unk |-> FALSE]
UnknownString == [some |-> FALSE, text |-> <<>>, unk |-> TRUE]

\* `not json_string`
Not(json_string) == ~json_string.some \/ json_string.text = <<>>

\* the body of one try block: the decompressed bytes read as UTF-8
DecodedText(decompressed) ==
    IF decompressed.unk THEN Unknown
    ELSE IF ~decompressed.ok THEN Failed
    ELSE Utf8Decode(decompressed.val)

\* the wbits tried by method 1, in order
WbitsLadder == <<0 - 15, 15, 0 - 13, 13>>

RECURSIVE ZlibLadder(_, _)
\* one pass of the loop of method 1: a try block that does not raise sets
\* json_string and breaks
LadderTry(text, base64_decoded, wbits_list) ==
    IF text.unk THEN UnknownString
    ELSE IF text.ok THEN SomeString(text.val)
    ELSE ZlibLadder(base64_decoded, wbits_list)

\* method 1: zlib.decompress with each wbits in turn
ZlibLadder(base64_decoded, wbits_list) ==
    IF wbits_list = <<>> THEN NoString
    ELSE LadderTry(DecodedText(ZlibDecompress(base64_decoded, Head(wbits_list))),
                   base64_decoded, Tail(wbits_list))

\* `if not json_string: try: json_string = ... except: pass`
OrElse(json_string, text) ==
    IF json_string.unk \/ ~Not(json_string) THEN json_string
    ELSE IF text.unk THEN UnknownString
    ELSE IF text.ok THEN SomeString(text.val)
    ELSE json_string

\* methods 1 to 3 of decode_jzb: zlib by wbits, raw deflate after two skipped
\* bytes, gzip
Decompressed(base64_decoded) ==
    OrElse(OrElse(ZlibLadder(base64_decoded, WbitsLadder),
                  DecodedText(ZlibDecompress(SubSeq(base64_decoded, 3, Len(base64_decoded)),
                                             0 - 15))),
           DecodedText(GzipDecompress(base64_decoded)))

\* method 4: the bytes themselves as UTF-8 when nothing else gave a string;
\* some = FALSE is the `return []` of its except branch
Uncompressed(json_string, plain) ==
    IF json_string.unk \/ ~Not(json_string) THEN json_string
    ELSE IF plain.ok THEN SomeString(plain.val)
    ELSE NoString

\* json_string after the four methods
JsonString(base64_decoded) ==
    Uncompressed(Decompressed(base64_decoded), Utf8Decode(base64_decoded))

\* how a call ends: it raised, or it returned val; unk when the input left the
\* modelled subset of deflate, gzip or JSON
Return(val) == [raised |-> FALSE, val |-> val, unk |-> FALSE]
RaisedError == [raised |-> TRUE, val |-> <<>>, unk |-> FALSE]
UnknownOutcome == [raised |-> FALSE, val |-> <<>>, unk |-> TRUE]

\* `events if isinstance(events, list) else [events]`; json.loads may raise
ParsedEvents(events) ==
    IF events.unk THEN UnknownOutcome
    ELSE IF ~events.ok THEN RaisedError
    ELSE Return(IF events.val.t = "list" THEN events.val.kids ELSE <<events.val>>)

\* `if not json_string: return []`, then json.loads
ParseJsonString(json_string) ==
    IF json_string.unk THEN UnknownOutcome
    ELSE IF Not(json_string) THEN Return(<<>>)
    ELSE ParsedEvents(JsonLoads(json_string.text))

\* base64 refused twice: `return []`
DecodeBytes(base64_decoded) ==
    IF ~base64_decoded.ok THEN Return(<<>>)
    ELSE ParseJsonString(JsonString(base64_decoded.val))

\* the statements inside the outer try of decode_jzb
DecodeJzbBody(jzb_encoded) == DecodeBytes(Base64Decoded(jzb_encoded))

\* decode_jzb without its outer `except Exception: return []`
DecodeJzbUncaught(jzb_encoded) == DecodeJzbBody(jzb_encoded)

\* the outer `except Exception: return []`
CatchAll(body) == IF body.raised THEN Return(<<>>) ELSE body

\* decode_jzb(jzb_encoded)
DecodeJzb(jzb_encoded) == CatchAll(DecodeJzbBody(jzb_encoded))

(***************************************************************************)
(* DistributionPlanner: simulate.py, Simulator._calculate_*_distribution   *)
(* A planner outcome is [err |-> BOOLEAN, plan |-> path id -> count]; err  *)
(* stands for the Python exception the planner raises (ZeroDivisionError,  *)
(* ValueError of max() on no paths).                                       *)
(***************************************************************************)
Raised == [err |-> TRUE, plan |-> <<>>]
Returned(plan) == [err |-> FALSE, plan |-> plan]

\* the rounding correction of a planner that corrects on any difference
\* (segment and account planners): difference added to the largest path
AdjustLargest(dist, user_count) ==
    LET assigned_count == SumFun(dist)
    IN  IF assigned_count # user_count
        THEN IF DOMAIN dist = {} THEN Raised
             ELSE LET largest_path == LargestPath(dist)
                  IN  Returned([dist EXCEPT ![largest_path] = @ + (user_count - assigned_count)])
        ELSE Returned(dist)

\* the loop of _calculate_legacy_distribution, before the correction: a path
\* whose percentage is None or 0 gets no entry
LegacyFloors(user_count, paths) ==
    LET included == {i \in DOMAIN paths : paths[i] # None /\ paths[i] # 0}
        total_percentage == SumFun([i \in included |-> paths[i]])
    IN  [i \in included |-> PyTruncMulDiv(user_count, paths[i], total_percentage)]

\* mutant: the shortfall is dropped instead of being added to the largest path
LegacyNoCorrection(user_count, paths) ==
    LET included == {i \in DOMAIN paths : paths[i] # None /\ paths[i] # 0}
        total_percentage == SumFun([i \in included |-> paths[i]])
    IN  Returned([i \in included |-> PyTruncMulDiv(user_count, paths[i], total_percentage)])

\* Simulator._calculate_legacy_distribution(user_count, user_journey_paths);
\* paths[i] is the percentage of path i (None or a number)
CalculateLegacyDistribution(user_count, paths) ==
    LET included == {i \in DOMAIN paths : paths[i] # None /\ paths[i] # 0}
        total_percentage == SumFun([i \in included |-> paths[i]])
        dist == [i \in included |-> PyTruncMulDiv(user_count, paths[i], total_percentage)]
        assigned_count == SumFun(dist)
    IN  IF assigned_count < user_count
        THEN IF included = {} THEN Raised
             ELSE LET largest_path == LargestPath(dist)
                  IN  Returned([dist EXCEPT ![largest_path] = @ + (user_count - assigned_count)])
        ELSE Returned(dist)

\* sum(segment['percentage'] for segment in user_segments)
TotalSegmentPercentage(segs) == SumSeq([k \in DOMAIN segs |-> segs[k].pct])

\* the users one segment of segment_user_count users sends to path p
SegmentPathUsers(segment_user_count, prefs, p) ==
    IF p \in DOMAIN prefs
    THEN PyTruncMulDiv(segment_user_count, prefs[p], SumFun(prefs))
    ELSE 0

\* the division by a zero preference total is reached when a preference of
\* the segment names a path of the workflow
PreferenceDivByZero(prefs, path_ids) ==
    (DOMAIN prefs \cap path_ids) # {} /\ SumFun(prefs) = 0

\* the loop over segments of _calculate_segment_based_distribution, before
\* the correction: path id -> accumulated floor counts
SegmentFloors(user_count, segs, path_ids) ==
    [p \in path_ids |->
        SumSeq([k \in DOMAIN segs |->
            SegmentPathUsers(
                PyTruncMulDiv(user_count, segs[k].pct, TotalSegmentPercentage(segs)),
                segs[k].prefs, p)])]

SegmentRaises(user_count, segs, path_ids) ==
    \/ segs # <<>> /\ TotalSegmentPercentage(segs) = 0
    \/ \E k \in DOMAIN segs : PreferenceDivByZero(segs[k].prefs, path_ids)

\* mutant: the correction of the segment planner is skipped
SegmentNoCorrection(user_count, segs, path_ids) ==
    IF SegmentRaises(user_count, segs, path_ids) THEN Raised
    ELSE Returned(SegmentFloors(user_count, segs, path_ids))

\* Simulator._calculate_segment_based_distribution
CalculateSegmentBasedDistribution(user_count, segs, path_ids) ==
    IF SegmentRaises(user_count, segs, path_ids) THEN Raised
    ELSE AdjustLargest(SegmentFloors(user_count, segs, path_ids), user_count)

\* Simulator._distribute_account_users_across_segments: as the segment loop,
\* but a segment that gets no user of the account is skipped before its
\* preferences are read, and no correction is made
AccountRaises(account_user_count, segs, path_ids) ==
    \/ segs # <<>> /\ TotalSegmentPercentage(segs) = 0
    \/ \E k \in DOMAIN segs :
          /\ PyTruncMulDiv(account_user_count, segs[k].pct, TotalSegmentPercentage(segs)) # 0
          /\ PreferenceDivByZero(segs[k].prefs, path_ids)

DistributeAccountUsersAcrossSegments(account_user_count, segs, path_ids) ==
    [p \in path_ids |->
        SumSeq([k \in DOMAIN segs |->
            LET segment_users_in_account ==
                    PyTruncMulDiv(account_user_count, segs[k].pct, TotalSegmentPercentage(segs))
            IN  IF segment_users_in_account = 0 THEN 0
                ELSE SegmentPathUsers(segment_users_in_account, segs[k].prefs, p)])]

\* scaled_account_users = int((account_user_count / total_account_users) * user_count)
ScaledAccountUsers(user_count, accts, a) ==
    PyTruncMulDiv(user_count, accts[a], SumSeq(accts))

AccountFloors(user_count, accts, segs, path_ids) ==
    [p \in path_ids |->
        SumSeq([a \in DOMAIN accts |->
            DistributeAccountUsersAcrossSegments(
                ScaledAccountUsers(user_count, accts, a), segs, path_ids)[p]])]

AccountBasedRaises(user_count, accts, segs, path_ids) ==
    \E a \in DOMAIN accts :
        AccountRaises(ScaledAccountUsers(user_count, accts, a), segs, path_ids)

\* mutant: the correction of the account planner is skipped
AccountNoCorrection(user_count, accts, segs, path_ids) ==
    IF AccountBasedRaises(user_count, accts, segs, path_ids) THEN Raised
    ELSE Returned(AccountFloors(user_count, accts, segs, path_ids))

\* Simulator._calculate_account_based_distribution; accts[a] is the
\* user_count of account a
CalculateAccountBasedDistribution(user_count, accts, segs, path_ids) ==
    IF AccountBasedRaises(user_count, accts, segs, path_ids) THEN Raised
    ELSE AdjustLargest(AccountFloors(user_count, accts, segs, path_ids), user_count)


(***************************************************************************)
(* SpecPlan: the planners applied to bounded inputs                        *)
(***************************************************************************)
\* the workflow paths of a segmented or account-based input; a preference
\* may also name UnknownPath, a path the workflow does not define
SegPathIds == 1..2
UnknownPath == 3

\* path_preferences: path id -> weight, on any subset of the path ids
PrefsSet ==
    UNION {[D -> 0..MaxPref] : D \in SUBSET SegPathIds}

PrefsWithUnknown ==
    {[p \in DOMAIN f \cup {UnknownPath} |-> IF p = UnknownPath THEN MaxPref ELSE f[p]] :
        f \in PrefsSet}

SegmentSet(prefs) == [pct : 0..MaxPct, prefs : prefs]

SegmentLists(prefs) ==
    UNION {[1..n -> SegmentSet(prefs)] : n \in SegIds}

AccountLists ==
    UNION {[1..n -> 1..MaxAcctUsers] : n \in AcctIds}

LegacyInputs ==
    [kind : {"legacy"}, user_count : 0..MaxTotal,
     paths : [PathIds -> {None} \cup 0..MaxWeight],
     segs : {<<>>}, accts : {<<>>}]

\* inputs of the size of a real run: thirds that leave a remainder,
\* percentages that divide evenly, and weights whose double quotient is
\* rounded down (100 * (29 / 100) is 28.999999999999996 in Python); the
\* same preferences within one segment, and two segments of equal size
ExampleInputs ==
    {[kind |-> "legacy", user_count |-> 10, paths |-> <<33, 33, 34>>, segs |-> <<>>, accts |-> <<>>],
     [kind |-> "legacy", user_count |-> 100, paths |-> <<50, 30, 20>>, segs |-> <<>>, accts |-> <<>>],
     [kind |-> "legacy", user_count |-> 100, paths |-> <<29, 71, None>>, segs |-> <<>>, accts |-> <<>>],
     [kind |-> "legacy", user_count |-> 44, paths |-> <<15, 29, None>>, segs |-> <<>>, accts |-> <<>>],
     [kind |-> "segment", user_count |-> 100, paths |-> [p \in SegPathIds |-> None],
      segs |-> <<[pct |-> 100, prefs |-> <<29, 71>>]>>, accts |-> <<>>],
     [kind |-> "segment", user_count |-> 100, paths |-> [p \in SegPathIds |-> None],
      segs |-> <<[pct |-> 50, prefs |-> <<60, 40>>], [pct |-> 50, prefs |-> <<20, 80>>]>>, accts |-> <<>>]}

SegmentInputs ==
    [kind : {"segment"}, user_count : 0..MaxTotal,
     paths : {[p \in SegPathIds |-> None]},
     segs : SegmentLists(PrefsSet \cup PrefsWithUnknown), accts : {<<>>}]

AccountInputs ==
    [kind : {"account"}, user_count : 0..MaxTotal,
     paths : {[p \in SegPathIds |-> None]},
     segs : SegmentLists(PrefsSet), accts : AccountLists]

PlanIdle == pl_pc = "idle" /\ pl_in = <<>> /\ pl_out = <<>>

PlanInit ==
    /\ pl_pc = "input"
    /\ pl_in \in LegacyInputs \cup ExampleInputs \cup SegmentInputs \cup AccountInputs
    /\ pl_out = <<>>

PlanLegacy ==
    /\ pl_pc = "input" /\ pl_in.kind = "legacy"
    /\ pl_out' = CalculateLegacyDistribution(pl_in.user_count, pl_in.paths)
    /\ pl_pc' = "done"
    /\ UNCHANGED <<pl_in, codec_vars, replay_vars, run_vars,
                   capture_vars, send_vars,
                   journey_vars, record_vars>>

PlanSegment ==
    /\ pl_pc = "input" /\ pl_in.kind = "segment"
    /\ pl_out' = CalculateSegmentBasedDistribution(pl_in.user_count, pl_in.segs, DOMAIN pl_in.paths)
    /\ pl_pc' = "done"
    /\ UNCHANGED <<pl_in, codec_vars, replay_vars, run_vars,
                   capture_vars, send_vars,
                   journey_vars, record_vars>>

PlanAccount ==
    /\ pl_pc = "input" /\ pl_in.kind = "account"
    /\ pl_out' = CalculateAccountBasedDistribution(pl_in.user_count, pl_in.accts, pl_in.segs,
                                                   DOMAIN pl_in.paths)
    /\ pl_pc' = "done"
    /\ UNCHANGED <<pl_in, codec_vars, replay_vars, run_vars,
                   capture_vars, send_vars,
                   journey_vars, record_vars>>

PlanNext == PlanLegacy \/ PlanSegment \/ PlanAccount

(***************************************************************************)
(* The wire codec applied to bounded inputs: event lists handed to         *)
(* encode_to_jzb, and raw strings handed to decode_jzb                     *)
(***************************************************************************)
\* the keys of an event record: "t" and a key that needs escaping
EventKeys == {<<116>>, <<97, 34>>}

\* the values of an event record: an integer, a string that needs escaping
\* (quote, backslash, a non-ASCII letter, a newline), null, a nested list
EventValues ==
    {JInt(0 - 12), JStr(<<34, 92, 233, 10>>), JNull,
     JList(<<JBool(TRUE), JDict(<<JPair(<<107>>, JInt(305))>>)>>)}

\* the event records: no member, one member, two members
EventPool ==
    {JDict(<<>>)}
        \cup {JDict(<<JPair(k, v)>>) : k \in EventKeys, v \in EventValues}
        \cup {JDict(<<JPair(<<116>>, v), JPair(<<97, 34>>, JInt(7))>>) : v \in EventValues}

EventLists == UNION {[1..n -> EventPool] : n \in 0..MaxEvents}

\* payloads a received jzb may carry: JSON texts ([], {"t":1}, 7, " [1]", null,
\* "a"), texts that are not JSON ({, [1, and x), nothing, and a byte that is
\* not UTF-8
PayloadTexts ==
    {<<91, 93>>, <<123, 34, 116, 34, 58, 49, 125>>, <<55>>, <<32, 91, 49, 93>>,
     <<110, 117, 108, 108>>, <<34, 97, 34>>, <<123>>, <<91, 49, 44>>, <<120>>,
     <<>>, <<255>>}

\* the containers a payload may come in: a zlib stream (window 15 or 13), a
\* zlib stream with a wrong checksum, a gzip member (alone, or followed by a
\* zero byte), a raw deflate stream, the payload itself, and a raw deflate
\* stream behind the two bytes 03 00 (themselves an empty deflate stream)
Containers(data) ==
    {ZlibCompress(data),
     <<88, 9>> \o DeflateStored(data) \o Adler32(data),
     <<120, 156>> \o DeflateStored(data) \o <<0, 0, 0, 0>>,
     GzipCompress(data),
     GzipCompress(data) \o <<0>>,
     DeflateStored(data),
     data,
     <<3, 0>> \o DeflateStored(data)}

\* the texts bytes may be sent as: URL-safe base64 without padding and quoted
\* (what encode_to_jzb writes), or with its padding and not quoted
WireForms(bytes) ==
    {Quote(RStripPad(UrlsafeB64Encode(bytes))), UrlsafeB64Encode(bytes)}

\* a text with up to MaxCut characters cut off its end
Truncations(text) ==
    {SubSeq(text, 1, Len(text) - k) : k \in 0..(IF Len(text) < MaxCut THEN Len(text) ELSE MaxCut)}

\* the characters of arbitrary short inputs: M Q T I - = % and a non-ASCII one
RawAlphabet == {77, 81, 84, 73, 45, 61, 37, 233}

ShortTexts == UNION {[1..n -> RawAlphabet] : n \in 0..MaxRawLen}

\* the raw strings handed to decode_jzb.  Inputs that make a decompressor meet
\* a Huffman-coded block, or the JSON parser a float, are outside the model
RawInputs ==
    {raw \in ShortTexts \cup UNION {Truncations(w) :
                w \in UNION {WireForms(b) : b \in UNION {Containers(d) : d \in PayloadTexts}}} :
        ~DecodeJzbBody(raw).unk}

CodecIdle ==
    /\ cd_pc = "idle" /\ cd_src = "none" /\ cd_events = <<>>
    /\ cd_raw = <<>> /\ cd_out = <<>>

CodecInit ==
    /\ cd_out = <<>>
    /\ \/ /\ cd_pc = "events" /\ cd_src = "events"
          /\ cd_events \in EventLists /\ cd_raw = <<>>
       \/ /\ cd_pc = "raw" /\ cd_src = "raw"
          /\ cd_events = <<>> /\ cd_raw \in RawInputs

\* PendoReplay.encode_to_jzb(events)
CodecEncode ==
    /\ cd_pc = "events"
    /\ cd_raw' = EncodeToJzb(cd_events)
    /\ cd_pc' = "raw"
    /\ UNCHANGED <<cd_src, cd_events, cd_out, plan_vars, replay_vars, run_vars,
                   capture_vars, send_vars,
                   journey_vars, record_vars>>

\* PendoCapture.decode_jzb(jzb_encoded)
CodecDecode ==
    /\ cd_pc = "raw"
    /\ cd_out' = DecodeJzb(cd_raw)
    /\ cd_pc' = "decoded"
    /\ UNCHANGED <<cd_src, cd_events, cd_raw, plan_vars, replay_vars, run_vars,
                   capture_vars, send_vars,
                   journey_vars, record_vars>>

CodecNext == CodecEncode \/ CodecDecode

(***************************************************************************)
(* ReplayEngine: pendo_capture.py, PendoReplay.bulk_replay and the         *)
(* sessions (replay_user_journey) it runs in batches                       *)
(***************************************************************************)
\* largest per-path count of a distribution plan handed to bulk_replay
MaxUsers == 2
\* largest batch_size handed to bulk_replay
MaxBatch == 2

\* the path ids a distribution plan names, in the order of its items
ReplayPaths == 1..2

\* a stored PendoEventTemplate: its sequence_order, len(decoded_events), and
\* whether every decoded event is a dict (decode_jzb returns whatever list the
\* payload held)
Template(sequence_order, events, dicts) ==
    [sequence_order |-> sequence_order, events |-> events, dicts |-> dicts]

\* what the template file may hold under one path id: no template, a template
\* without events, one template, two templates stored out of order, a template
\* without events followed by one with an event, a template whose event is
\* not a dict, two templates recorded with the same sequence_order (by
\* overlapping invocations of intercept_for_path)
PathTemplates ==
    {<<>>,
     <<Template(0, 0, TRUE)>>,
     <<Template(0, 1, TRUE)>>,
     <<Template(1, 1, TRUE), Template(0, 2, TRUE)>>,
     <<Template(0, 0, TRUE), Template(1, 1, TRUE)>>,
     <<Template(0, 1, FALSE)>>,
     <<Template(0, 1, TRUE), Template(0, 1, TRUE)>>}

\* load_templates(workflow_name): path id -> templates, for the path ids the
\* file holds; the empty dict when the file is missing or unreadable
TemplateStores ==
    UNION {[D -> PathTemplates] : D \in SUBSET ReplayPaths}

\* how a GET may end: a response with a status, or an exception of the client
Response(status) == [error |-> FALSE, status |-> status]
TransportError == [error |-> TRUE, status |-> 0]
Outcomes == {Response(200), Response(204), Response(500), TransportError}

\* send_pendo_request prints "successful" for status 200 and "failed" for any
\* other status and for an exception
RequestFailed(outcome) == outcome.error \/ outcome.status # 200

\* mutant: the try / except around the GET is missing
SendUncaught(template, outcome) ==
    IF template.events > 0 /\ ~template.dicts
    THEN [raised |-> TRUE, issued |-> FALSE]
    ELSE [raised |-> outcome.error, issued |-> TRUE]

\* PendoReplay.send_pendo_request: event.copy() of an event that is not a dict
\* raises before the request is built; an exception of the GET is caught
SendPendoRequest(template, outcome) ==
    IF template.events > 0 /\ ~template.dicts
    THEN [raised |-> TRUE, issued |-> FALSE]
    ELSE [raised |-> FALSE, issued |-> TRUE]

\* sorted(templates, key=lambda t: t.sequence_order): a stable insertion
InsertByOrder(sorted, t) ==
    LET k == Cardinality({i \in DOMAIN sorted : sorted[i].sequence_order <= t.sequence_order})
    IN  SubSeq(sorted, 1, k) \o <<t>> \o SubSeq(sorted, k + 1, Len(sorted))

SortedTemplates(templates) == FoldLeft(InsertByOrder, <<>>, templates)

\* sum(len(t.decoded_events) for t in path_templates)
TotalEventsInPath(path_templates) ==
    SumSeq([i \in DOMAIN path_templates |-> path_templates[i].events])

\* mutant: only a path missing from the template file is skipped
SkippedIfMissing(templates, path_id) == path_id \notin DOMAIN templates

\* the two "continue" of the loop over path_distributions.items()
Skipped(templates, path_id) ==
    \/ path_id \notin DOMAIN templates
    \/ TotalEventsInPath(templates[path_id]) = 0

\* the sessions appended for one path: range(user_count) of them
PathSessions(templates, plan, path_id) ==
    IF Skipped(templates, path_id) THEN <<>>
    ELSE [i \in 1..plan[path_id] |-> path_id]

\* all_sessions before the shuffle, as the path id of each session
RECURSIVE AllSessions(_, _, _)
AllSessions(templates, plan, last) ==
    IF last = 0 THEN <<>>
    ELSE AllSessions(templates, plan, last - 1) \o PathSessions(templates, plan, last)

CountOf(seq, v) == Cardinality({i \in DOMAIN seq : seq[i] = v})

\* random.shuffle(all_sessions): any order of the same sessions
Shuffles(all_sessions) ==
    {s \in [DOMAIN all_sessions -> ReplayPaths] :
        \A p \in ReplayPaths : CountOf(s, p) = CountOf(all_sessions, p)}

\* a session of all_sessions: its path, the sequence_order of the requests it
\* has issued, and where its task is
NewSession(path_id) == [path |-> path_id, sent |-> <<>>, status |-> "waiting"]

\* mutant: the slice holds one session more than batch_size
BatchOneMore(i, batch_size, n) == {s \in 1..n : i < s /\ s <= i + batch_size + 1}

\* batch = all_sessions[i:i + batch_size], as 1-based indices
Batch(i, batch_size, n) == {s \in 1..n : i < s /\ s <= i + batch_size}

\* mutant: the wait ends when the first task has finished
GatherFirst(sessions, batch) ==
    \E s \in batch : sessions[s].status = "finished"

\* await asyncio.gather(*tasks, return_exceptions=True) returns when every
\* task has finished, with a result or with an exception
Gather(sessions, batch) ==
    \A s \in batch : sessions[s].status = "finished"

\* one turn of the loop of replay_user_journey for a session: the request of
\* its next template has been sent with this result
SessionAfter(session, templates, result) ==
    [path |-> session.path,
     sent |-> IF result.issued
              THEN Append(session.sent, templates[Len(session.sent) + 1].sequence_order)
              ELSE session.sent,
     status |-> IF result.raised \/ Len(session.sent) + 1 = Len(templates)
                THEN "finished" ELSE "running"]

\* replay_user_journey from where the session is: the loop over the sorted
\* templates ends when none is left, else the next request is sent
JourneyStep(session, templates, outcome) ==
    IF Len(session.sent) >= Len(templates)
    THEN [session EXCEPT !.status = "finished"]
    ELSE SessionAfter(session, templates,
                      SendPendoRequest(templates[Len(session.sent) + 1], outcome))

ReplayInputs ==
    [templates : TemplateStores,
     plan : [ReplayPaths -> 0..MaxUsers],
     batch_size : 1..MaxBatch]

NoReport == [returned |-> FALSE, raised |-> FALSE, value |-> None]
ReturnedNone == [returned |-> TRUE, raised |-> FALSE, value |-> None]

ReplayIdle ==
    /\ rp_pc = "idle" /\ rp_in = <<>> /\ rp_sessions = <<>> /\ rp_next = 0
    /\ rp_batches = 0 /\ rp_failed = 0 /\ rp_report = NoReport

ReplayInit ==
    /\ rp_pc = "call" /\ rp_in \in ReplayInputs /\ rp_sessions = <<>> /\ rp_next = 0
    /\ rp_batches = 0 /\ rp_failed = 0 /\ rp_report = NoReport

\* bulk_replay: "if not templates: return"
BulkReplayNoTemplates ==
    /\ rp_pc = "call" /\ DOMAIN rp_in.templates = {}
    /\ rp_pc' = "done" /\ rp_report' = ReturnedNone
    /\ UNCHANGED <<rp_in, rp_sessions, rp_next, rp_batches, rp_failed,
                   plan_vars, codec_vars, run_vars,
                   capture_vars, send_vars,
                   journey_vars, record_vars>>

\* bulk_replay: the sessions are generated and shuffled
BulkReplaySessions ==
    /\ rp_pc = "call" /\ DOMAIN rp_in.templates # {}
    /\ \E shuffled \in Shuffles(AllSessions(rp_in.templates, rp_in.plan, Cardinality(ReplayPaths))) :
          rp_sessions' = [s \in DOMAIN shuffled |-> NewSession(shuffled[s])]
    /\ rp_next' = 0 /\ rp_pc' = "batch"
    /\ UNCHANGED <<rp_in, rp_batches, rp_failed, rp_report,
                   plan_vars, codec_vars, run_vars,
                   capture_vars, send_vars,
                   journey_vars, record_vars>>

\* bulk_replay: the next batch is cut and its tasks are handed to gather
BulkReplayBatch ==
    /\ rp_pc = "batch" /\ rp_next < Len(rp_sessions)
    /\ rp_batches' = rp_batches + 1 /\ rp_pc' = "gather"
    /\ UNCHANGED <<rp_in, rp_sessions, rp_next, rp_failed, rp_report,
                   plan_vars, codec_vars, run_vars,
                   capture_vars, send_vars,
                   journey_vars, record_vars>>

\* replay_user_journey: a session of the batch sends the request of its next
\* template and receives the outcome
ReplayUserJourney ==
    /\ rp_pc = "gather"
    /\ \E s \in Batch(rp_next, rp_in.batch_size, Len(rp_sessions)), outcome \in Outcomes :
          /\ rp_sessions[s].status # "finished"
          /\ rp_sessions' =
                [rp_sessions EXCEPT ![s] =
                    JourneyStep(@, SortedTemplates(rp_in.templates[@.path]), outcome)]
          /\ rp_failed' = IF Len(rp_sessions'[s].sent) > Len(rp_sessions[s].sent)
                             /\ RequestFailed(outcome)
                          THEN rp_failed + 1 ELSE rp_failed
    /\ UNCHANGED <<rp_pc, rp_in, rp_next, rp_batches, rp_report,
                   plan_vars, codec_vars, run_vars,
                   capture_vars, send_vars,
                   journey_vars, record_vars>>

\* bulk_replay: gather returns, the pause, the loop goes to the next i
BulkReplayGathered ==
    /\ rp_pc = "gather"
    /\ Gather(rp_sessions, Batch(rp_next, rp_in.batch_size, Len(rp_sessions)))
    /\ rp_next' = rp_next + rp_in.batch_size /\ rp_pc' = "batch"
    /\ UNCHANGED <<rp_in, rp_sessions, rp_batches, rp_failed, rp_report,
                   plan_vars, codec_vars, run_vars,
                   capture_vars, send_vars,
                   journey_vars, record_vars>>

\* bulk_replay: the loop is over, the function returns (None)
BulkReplayReturn ==
    /\ rp_pc = "batch" /\ rp_next >= Len(rp_sessions)
    /\ rp_pc' = "done" /\ rp_report' = ReturnedNone
    /\ UNCHANGED <<rp_in, rp_sessions, rp_next, rp_batches, rp_failed,
                   plan_vars, codec_vars, run_vars,
                   capture_vars, send_vars,
                   journey_vars, record_vars>>

ReplayNext ==
    \/ BulkReplayNoTemplates
    \/ BulkReplaySessions
    \/ BulkReplayBatch
    \/ ReplayUserJourney
    \/ BulkReplayGathered
    \/ BulkReplayReturn

(***************************************************************************)
(* The whole run: simulate.py, record_and_replay and Simulator.bulk_simulate*)
(***************************************************************************)
\* largest total_users handed to record_and_replay
MaxRunUsers == 2
\* largest percentage of a path of the workflow
MaxRunWeight == 1
\* most templates the browser captures for one path
MaxCaptured == 2

\* the paths of user_journey_paths
RunPaths == 1..2

\* user_segments: None, or a list of segments
NoSegments == [none |-> TRUE, list |-> <<>>]
Segments(list) == [none |-> FALSE, list |-> list]

\* the user_segments of a run: None, no segment, a segment that prefers both
\* paths, a segment whose percentage is 0
RunSegments ==
    {NoSegments, Segments(<<>>),
     Segments(<<[pct |-> 1, prefs |-> [p \in RunPaths |-> 1]]>>),
     Segments(<<[pct |-> 0, prefs |-> [p \in RunPaths |-> 1]]>>)}

\* the accounts of a run, as their user_count: none, or two accounts
RunAccounts == {<<>>, <<1, 2>>}

\* the methods class PendoReplay defines
PendoReplayMethods ==
    {"__init__", "__aenter__", "__aexit__", "load_templates",
     "generate_user_session_ids", "random_string", "replay_user_journey",
     "send_pendo_request", "encode_to_jzb", "bulk_replay"}

\* looking a method up on a PendoReplay object
GetAttr(name) == IF name \in PendoReplayMethods THEN "method" ELSE "AttributeError"

\* bulk_simulate, the choice of the strategy: accounts, else user segments,
\* else the path percentages; the account planner iterates user_segments
PathDistributions(user_count, paths, user_segments, accounts) ==
    IF accounts # <<>>
    THEN IF user_segments.none THEN Raised
         ELSE CalculateAccountBasedDistribution(user_count, accounts, user_segments.list,
                                                DOMAIN paths)
    ELSE IF user_segments.list # <<>>
    THEN CalculateSegmentBasedDistribution(user_count, user_segments.list, DOMAIN paths)
    ELSE CalculateLegacyDistribution(user_count, paths)

\* how a call ends: an exception left it, or it returned a result dict (a key
\* the dict does not hold is "" / None / the empty mapping here)
NoResult ==
    [returned |-> FALSE, raised |-> FALSE, success |-> FALSE, error |-> "",
     test_mode |-> FALSE, sessions_completed |-> None, failed_actions |-> <<>>,
     templates_recorded |-> None]
RunRaised == [NoResult EXCEPT !.raised = TRUE]
RunResult(success, error, test_mode, sessions_completed, failed_actions) ==
    [returned |-> TRUE, raised |-> FALSE, success |-> success, error |-> error,
     test_mode |-> test_mode, sessions_completed |-> sessions_completed,
     failed_actions |-> failed_actions, templates_recorded |-> None]

\* bulk_simulate after the plan is computed: the loop that prints the
\* percentages divides by user_count; then the try block, whose call of
\* replay.bulk_replay_with_segments is caught by "except Exception" when the
\* attribute lookup fails
BulkSimulateWith(distribution, user_count) ==
    IF distribution.err THEN RunRaised
    ELSE IF DOMAIN distribution.plan # {} /\ user_count = 0 THEN RunRaised
    ELSE IF GetAttr("bulk_replay_with_segments") = "method"
    THEN RunResult(TRUE, "", FALSE, user_count, <<>>)
    ELSE RunResult(FALSE, "AttributeError", FALSE, 0, <<>>)

\* Simulator.bulk_simulate(workflow_name, user_count, days, user_journey_paths,
\* user_segments, accounts, batch_size)
BulkSimulate(user_count, paths, user_segments, accounts) ==
    BulkSimulateWith(PathDistributions(user_count, paths, user_segments, accounts), user_count)

\* mutant: the check for zero recorded templates is missing
NeverEmpty(templates_recorded) == FALSE

\* record_and_replay, normal mode: "if templates_recorded == 0"
NothingRecorded(templates_recorded) == templates_recorded = 0

\* len(capture.captured_requests): the path ids that hold a template
TemplatesRecorded(captured) == Cardinality({p \in DOMAIN captured : captured[p] > 0})

\* the user_segments and accounts record_and_replay receives: execute_workflow
\* passes neither (they take their default, None), a direct caller passes its own
ArgSegments(in) == IF in.entry = "execute_workflow" THEN NoSegments ELSE in.user_segments
ArgAccounts(in) == IF in.entry = "execute_workflow" THEN <<>> ELSE in.accounts

\* bulk_simulate: "if accounts: ... elif user_segments: ... else: ..."
Strategy(user_segments, accounts) ==
    IF accounts # <<>> THEN "account"
    ELSE IF user_segments.list # <<>> THEN "segment"
    ELSE "legacy"

\* failed_actions of a response: None, or the failures by path
NoFailedActions == [none |-> TRUE, val |-> <<>>]
FailedActions(val) == [none |-> FALSE, val |-> val]

\* a DirectExecutionResponse; raised stands for an exception that leaves
\* execute_workflow instead
NoResponse ==
    [returned |-> FALSE, raised |-> FALSE, success |-> FALSE, sessions_completed |-> 0,
     templates_recorded |-> 0, error |-> "", test_mode |-> FALSE,
     failed_actions |-> NoFailedActions]
DirectExecutionResponse(success, sessions_completed, templates_recorded, error, test_mode, failed_actions) ==
    [returned |-> TRUE, raised |-> FALSE, success |-> success,
     sessions_completed |-> sessions_completed, templates_recorded |-> templates_recorded,
     error |-> error, test_mode |-> test_mode, failed_actions |-> failed_actions]

\* result.get(key, default)
GetOr(value, absent, default) == IF value = absent THEN default ELSE value

\* mutant: execute_workflow without its "except Exception"
ExecuteWorkflowUncaught(result, test_mode, paths) ==
    IF result.raised THEN [NoResponse EXCEPT !.raised = TRUE]
    ELSE IF result.success
    THEN DirectExecutionResponse(TRUE, GetOr(result.sessions_completed, None, 0),
             GetOr(result.templates_recorded, None, Len(paths)), "", test_mode,
             IF test_mode THEN FailedActions(result.failed_actions) ELSE NoFailedActions)
    ELSE DirectExecutionResponse(FALSE, 0, 0, GetOr(result.error, "", "Unknown execution error"),
             test_mode, NoFailedActions)

\* execute_workflow after record_and_replay returned result or raised: the
\* success branch, the failure branch, the except branch
ExecuteWorkflowResponse(result, test_mode, paths) ==
    IF result.raised
    THEN DirectExecutionResponse(FALSE, 0, 0, "exception", test_mode, NoFailedActions)
    ELSE IF result.success
    THEN DirectExecutionResponse(TRUE, GetOr(result.sessions_completed, None, 0),
             GetOr(result.templates_recorded, None, Len(paths)), "", test_mode,
             IF test_mode THEN FailedActions(result.failed_actions) ELSE NoFailedActions)
    ELSE DirectExecutionResponse(FALSE, 0, 0, GetOr(result.error, "", "Unknown execution error"),
             test_mode, NoFailedActions)

RunInputs ==
    [entry : {"execute_workflow", "record_and_replay"},
     test_mode : BOOLEAN,
     launch_fails : BOOLEAN,
     total_users : 0..MaxRunUsers,
     batch_size : {1},
     paths : [RunPaths -> {None} \cup 0..MaxRunWeight],
     user_segments : RunSegments,
     accounts : RunAccounts,
     captured : [RunPaths -> 0..MaxCaptured],
     failed : [RunPaths -> 0..1]]

NoRecording == [templates_recorded |-> 0, failed_actions |-> <<>>]

RunIdle ==
    /\ rn_pc = "idle" /\ rn_in = <<>> /\ rn_recording = NoRecording /\ rn_plan = <<>>
    /\ rn_replay = FALSE /\ rn_requests = 0 /\ rn_result = NoResult
    /\ rn_strategy = "none" /\ rn_response = NoResponse

RunInit ==
    /\ rn_pc = "call" /\ rn_in \in RunInputs /\ rn_recording = NoRecording
    /\ rn_plan = <<>> /\ rn_replay = FALSE /\ rn_requests = 0 /\ rn_result = NoResult
    /\ rn_strategy = "none" /\ rn_response = NoResponse

\* record_and_replay: record_workflow_templates raises (the browser does not
\* start), and the exception leaves record_and_replay
RecordRaises ==
    /\ rn_pc = "call" /\ rn_in.launch_fails
    /\ rn_pc' = "done" /\ rn_result' = RunRaised
    /\ UNCHANGED <<rn_in, rn_recording, rn_plan, rn_replay, rn_requests,
                   rn_strategy, rn_response, plan_vars, codec_vars, replay_vars,
                   capture_vars, send_vars,
                   journey_vars, record_vars>>

\* record_and_replay: record_workflow_templates returns recording_result
RecordWorkflowTemplates ==
    /\ rn_pc = "call" /\ ~rn_in.launch_fails
    /\ rn_recording' = [templates_recorded |-> TemplatesRecorded(rn_in.captured),
                        failed_actions |-> rn_in.failed]
    /\ rn_pc' = "recorded"
    /\ UNCHANGED <<rn_in, rn_plan, rn_replay, rn_requests, rn_result,
                   rn_strategy, rn_response, plan_vars, codec_vars, replay_vars,
                   capture_vars, send_vars,
                   journey_vars, record_vars>>

\* record_and_replay: the test-mode branch returns without a replay
TestModeReturn ==
    /\ rn_pc = "recorded" /\ rn_in.test_mode
    /\ rn_result' = IF rn_recording.templates_recorded = 0
                    THEN RunResult(FALSE, "No templates recorded", TRUE, None,
                                   rn_recording.failed_actions)
                    ELSE [RunResult(TRUE, "", TRUE, 0, rn_recording.failed_actions)
                            EXCEPT !.templates_recorded = rn_recording.templates_recorded]
    /\ rn_pc' = "done"
    /\ UNCHANGED <<rn_in, rn_recording, rn_plan, rn_replay, rn_requests,
                   rn_strategy, rn_response, plan_vars, codec_vars, replay_vars,
                   capture_vars, send_vars,
                   journey_vars, record_vars>>

\* record_and_replay, normal mode: nothing was recorded
NoTemplatesReturn ==
    /\ rn_pc = "recorded" /\ ~rn_in.test_mode
    /\ NothingRecorded(rn_recording.templates_recorded)
    /\ rn_result' = RunResult(FALSE, "No templates recorded", FALSE, None, <<>>)
    /\ rn_pc' = "done"
    /\ UNCHANGED <<rn_in, rn_recording, rn_plan, rn_replay, rn_requests,
                   rn_strategy, rn_response, plan_vars, codec_vars, replay_vars,
                   capture_vars, send_vars,
                   journey_vars, record_vars>>

\* record_and_replay, normal mode: bulk_simulate is called and its result (or
\* its exception) is the result of the run.  No step of bulk_simulate reaches
\* send_pendo_request, so the count of outbound requests stays as it is
ReplayPhase ==
    /\ rn_pc = "recorded" /\ ~rn_in.test_mode
    /\ ~NothingRecorded(rn_recording.templates_recorded)
    /\ rn_replay' = TRUE
    /\ rn_strategy' = Strategy(ArgSegments(rn_in), ArgAccounts(rn_in))
    /\ rn_plan' = PathDistributions(rn_in.total_users, rn_in.paths,
                                    ArgSegments(rn_in), ArgAccounts(rn_in)).plan
    /\ rn_result' = BulkSimulate(rn_in.total_users, rn_in.paths,
                                 ArgSegments(rn_in), ArgAccounts(rn_in))
    /\ rn_pc' = "done"
    /\ UNCHANGED <<rn_in, rn_recording, rn_requests, rn_response,
                   plan_vars, codec_vars, replay_vars,
                   capture_vars, send_vars,
                   journey_vars, record_vars>>

\* execute_workflow: the result of record_and_replay, or its exception, is
\* turned into the response
ExecuteWorkflow ==
    /\ rn_pc = "done" /\ rn_in.entry = "execute_workflow"
    /\ rn_response' = ExecuteWorkflowResponse(rn_result, rn_in.test_mode, rn_in.paths)
    /\ rn_pc' = "responded"
    /\ UNCHANGED <<rn_in, rn_recording, rn_plan, rn_replay, rn_requests, rn_result,
                   rn_strategy, plan_vars, codec_vars, replay_vars,
                   capture_vars, send_vars,
                   journey_vars, record_vars>>

RunNext ==
    \/ RecordRaises
    \/ RecordWorkflowTemplates
    \/ TestModeReturn
    \/ NoTemplatesReturn
    \/ ReplayPhase
    \/ ExecuteWorkflow

(***************************************************************************)
(* Recording: the route handlers.  simulate.py intercept_for_path with     *)
(* PendoCapture.intercept_pendo_request, and intercept.py                   *)
(* PendoEventInterceptor._handle_request.  A handler invocation is one call *)
(* per intercepted request; intercept_for_path is suspended once, at        *)
(* `await route.continue_()`, and other invocations may run meanwhile.      *)
(***************************************************************************)
\* most requests intercepted while one path is recorded
MaxRequests == 3

CapturePaths == 1..2

\* values of the jzb query parameter: the encoding of one event, and a text
\* decode_jzb cannot read
JzbSamples == {EncodeToJzb(<<JDict(<<JPair(<<116>>, JInt(7))>>)>>), <<120>>}

\* an intercepted request: vendor says whether the URL holds "pendo", has_jzb
\* whether the query string holds a jzb parameter, fails whether reading the
\* request raises inside _capture_pendo_event
Request(vendor, has_jzb, jzb, fails) ==
    [vendor |-> vendor, has_jzb |-> has_jzb, jzb |-> jzb, fails |-> fails]

InterceptRequests ==
    {Request(v, TRUE, j, FALSE) : v \in BOOLEAN, j \in JzbSamples}
        \cup {Request(v, FALSE, <<>>, FALSE) : v \in BOOLEAN}

HandleRequests == {Request(v, FALSE, <<>>, f) : v, f \in BOOLEAN}

RequestLists(requests) == UNION {[1..n -> requests] : n \in 0..MaxRequests}

\* is_pendo_request = 'pendo.io' in request.url or 'pendo' in request.url.lower()
IsPendoRequest(request) == request.vendor

\* route.continue_() as the handlers call it: without overrides
ContinueCall == [overrides |-> FALSE]

PendoEventTemplate(path_id, sequence_order, jzb, decoded_events) ==
    [path_id |-> path_id, sequence_order |-> sequence_order,
     query_params |-> jzb, decoded_events |-> decoded_events]

\* captured_requests[path_id], [] for a path that has no entry
TemplatesOf(captured_requests, path_id) ==
    IF path_id \in DOMAIN captured_requests THEN captured_requests[path_id] ELSE <<>>

\* `if path_id not in self.captured_requests: ... = []` and the append
StoreTemplate(captured_requests, path_id, template) ==
    [p \in DOMAIN captured_requests \cup {path_id} |->
        IF p = path_id
        THEN Append(TemplatesOf(captured_requests, path_id), template)
        ELSE captured_requests[p]]

\* intercept_pendo_request up to its `await route.continue_()`: the template
\* of a vendor request that carries jzb is stored
CapturedBeforeContinue(captured_requests, request, path_id, sequence_order) ==
    IF IsPendoRequest(request) /\ request.has_jzb
    THEN StoreTemplate(captured_requests, path_id,
             PendoEventTemplate(path_id, sequence_order, request.jzb,
                                DecodeJzb(request.jzb).val))
    ELSE captured_requests

\* what intercept_pendo_request returns after the continue: True on both
\* vendor branches, False on the last line
InterceptResult(request) == IsPendoRequest(request)

\* mutant: _capture_pendo_event without its try / except
CaptureEventUncaught(captured_events, request) ==
    IF request.fails THEN [raised |-> TRUE, events |-> captured_events]
    ELSE [raised |-> FALSE, events |-> captured_events + 1]

\* PendoEventInterceptor._capture_pendo_event: an event is appended, or the
\* error is printed; captured_events is the length of the list
CapturePendoEvent(captured_events, request) ==
    IF request.fails THEN [raised |-> FALSE, events |-> captured_events]
    ELSE [raised |-> FALSE, events |-> captured_events + 1]

\* one handler invocation: where it is, the sequence it passed, the templates
\* it appended, its continue_ calls, and how it ended
NewCall ==
    [status |-> "pending", sequence_order |-> None, stored |-> 0, continued |-> <<>>,
     returned |-> FALSE, value |-> FALSE, raised |-> FALSE]

\* the store before the path is recorded: empty, or holding a template of the
\* other path
StoreBefore(in) ==
    IF in.recorded_before
    THEN StoreTemplate(<<>>, 3 - in.path_id, PendoEventTemplate(3 - in.path_id, 0, <<120>>, <<>>))
    ELSE <<>>

CaptureInputs ==
    [handler : {"intercept_for_path"}, path_id : CapturePaths, serial : BOOLEAN,
     recorded_before : BOOLEAN, requests : RequestLists(InterceptRequests)]
    \cup
    [handler : {"_handle_request"}, path_id : {1}, serial : {TRUE},
     recorded_before : {FALSE}, requests : RequestLists(HandleRequests)]

CaptureIdle ==
    /\ cp_pc = "idle" /\ cp_in = <<>> /\ cp_calls = <<>> /\ cp_captured = <<>>
    /\ cp_sequence = 0 /\ cp_events = 0

CaptureInit ==
    /\ cp_pc = "recording" /\ cp_in \in CaptureInputs
    /\ cp_calls = [r \in DOMAIN cp_in.requests |-> NewCall]
    /\ cp_captured = StoreBefore(cp_in)
    /\ cp_sequence = 0 /\ cp_events = 0

\* the next request the browser hands to a handler
NextRequest(r) ==
    /\ r \in DOMAIN cp_calls /\ cp_calls[r].status = "pending"
    /\ \A q \in DOMAIN cp_calls : q < r => cp_calls[q].status # "pending"

\* intercept_for_path is called: it passes the current sequence to
\* intercept_pendo_request, which runs up to `await route.continue_()`.  When
\* requests are handled one at a time no other invocation is suspended
InterceptForPath ==
    /\ cp_pc = "recording" /\ cp_in.handler = "intercept_for_path"
    /\ \E r \in DOMAIN cp_calls :
          /\ NextRequest(r)
          /\ cp_in.serial => \A q \in DOMAIN cp_calls : cp_calls[q].status # "awaiting"
          /\ cp_captured' = CapturedBeforeContinue(cp_captured, cp_in.requests[r],
                                                   cp_in.path_id, cp_sequence)
          /\ cp_calls' = [cp_calls EXCEPT ![r] =
                [@ EXCEPT !.status = "awaiting", !.sequence_order = cp_sequence,
                          !.stored = Len(TemplatesOf(cp_captured', cp_in.path_id))
                                       - Len(TemplatesOf(cp_captured, cp_in.path_id))]]
    /\ UNCHANGED <<cp_pc, cp_in, cp_sequence, cp_events,
                   plan_vars, codec_vars, replay_vars, run_vars, send_vars,
                   journey_vars, record_vars>>

\* route.continue_() returns to a suspended invocation: intercept_pendo_request
\* returns, and intercept_for_path counts the request: `if was_captured:
\* sequence += 1`
ContinueReturns ==
    /\ cp_pc = "recording"
    /\ \E r \in DOMAIN cp_calls :
          /\ cp_calls[r].status = "awaiting"
          /\ cp_calls' = [cp_calls EXCEPT ![r] =
                [@ EXCEPT !.status = "finished",
                          !.continued = Append(@, ContinueCall),
                          !.returned = TRUE,
                          !.value = InterceptResult(cp_in.requests[r])]]
          /\ cp_sequence' = IF InterceptResult(cp_in.requests[r])
                            THEN cp_sequence + 1 ELSE cp_sequence
    /\ UNCHANGED <<cp_pc, cp_in, cp_captured, cp_events,
                   plan_vars, codec_vars, replay_vars, run_vars, send_vars,
                   journey_vars, record_vars>>

\* PendoEventInterceptor._handle_request: a vendor request is captured, and
\* the request is continued
HandleRequest ==
    /\ cp_pc = "recording" /\ cp_in.handler = "_handle_request"
    /\ \E r \in DOMAIN cp_calls :
          /\ NextRequest(r)
          /\ cp_events' = IF IsPendoRequest(cp_in.requests[r])
                          THEN CapturePendoEvent(cp_events, cp_in.requests[r]).events
                          ELSE cp_events
          /\ cp_calls' = [cp_calls EXCEPT ![r] =
                IF IsPendoRequest(cp_in.requests[r])
                   /\ CapturePendoEvent(cp_events, cp_in.requests[r]).raised
                THEN [@ EXCEPT !.status = "finished", !.raised = TRUE]
                ELSE [@ EXCEPT !.status = "finished", !.returned = TRUE,
                               !.continued = Append(@, ContinueCall)]]
    /\ UNCHANGED <<cp_pc, cp_in, cp_captured, cp_sequence,
                   plan_vars, codec_vars, replay_vars, run_vars, send_vars,
                   journey_vars, record_vars>>

\* the steps of the path are over and every handler invocation has ended
RecordingDone ==
    /\ cp_pc = "recording"
    /\ \A r \in DOMAIN cp_calls : cp_calls[r].status = "finished"
    /\ cp_pc' = "done"
    /\ UNCHANGED <<cp_in, cp_calls, cp_captured, cp_sequence, cp_events,
                   plan_vars, codec_vars, replay_vars, run_vars, send_vars,
                   journey_vars, record_vars>>

CaptureNext ==
    \/ InterceptForPath
    \/ ContinueReturns
    \/ HandleRequest
    \/ RecordingDone

(***************************************************************************)
(* Replay, one request: PendoReplay.send_pendo_request on objects.  The    *)
(* heap is a sequence of dicts, an object is its index; a stored template  *)
(* holds the index of its query_params and the indices of the records of   *)
(* its decoded_events.  A dict is a function from keys to values.          *)
(***************************************************************************)
\* most sessions replayed side by side
MaxSendSessions == 2

\* dict values: a string, an integer, the payload that encodes a list of events
StrVal(s) == [str |-> s]
IntVal(n) == [int |-> n]
JzbVal(events) == [jzb |-> events]

\* dict.update(other): the keys of other are written, the rest is kept
Update(dict, other) ==
    [k \in DOMAIN dict \cup DOMAIN other |-> IF k \in DOMAIN other THEN other[k] ELSE dict[k]]

\* a stored template; base_url and timing_delay_ms take no part in the
\* substitutions
StoredTemplate(sequence_order, query_params, decoded_events) ==
    [sequence_order |-> sequence_order, query_params |-> query_params,
     decoded_events |-> decoded_events]

RecordedQuery == [k \in {"jzb", "ct", "v"} |-> IF k = "v" THEN StrVal("2.1") ELSE StrVal("recorded")]
RecordedLoad ==
    [k \in {"type", "visitor_id", "browser_time"} |->
        IF k = "type" THEN StrVal("load") ELSE IF k = "visitor_id" THEN StrVal("recorded") ELSE IntVal(0)]
RecordedClick == [k \in {"type", "account_id"} |-> StrVal(IF k = "type" THEN "click" ELSE "recorded")]
EmptyDict == [k \in {} |-> StrVal("")]

\* the templates of the replayed path with their objects: one template of two
\* events, two templates that share nothing, two templates that share their
\* event record, a template without events and without query parameters
SendStores ==
    {[heap |-> <<RecordedQuery, RecordedLoad, RecordedClick>>,
      templates |-> <<StoredTemplate(0, 1, <<2, 3>>)>>],
     [heap |-> <<RecordedQuery, RecordedLoad, EmptyDict, RecordedClick>>,
      templates |-> <<StoredTemplate(0, 1, <<2>>), StoredTemplate(1, 3, <<4>>)>>],
     [heap |-> <<RecordedQuery, RecordedClick>>,
      templates |-> <<StoredTemplate(0, 1, <<2>>), StoredTemplate(1, 1, <<2, 2>>)>>],
     [heap |-> <<EmptyDict>>,
      templates |-> <<StoredTemplate(0, 1, <<>>)>>]}

\* generate_user_session_ids() of session s
SessionIds(s) ==
    [k \in {"visitor_id", "session_id", "tab_id", "frame_id", "account_id"} |->
        IF k = "account_id" THEN StrVal("demo_account")
        ELSE IF s = 1 THEN StrVal("first") ELSE IF s = 2 THEN StrVal("second") ELSE StrVal("later")]

\* the dict send_pendo_request passes to modified_event.update
SessionData(browser_time, session_ids) ==
    Update([k \in {"browser_time"} |-> IntVal(browser_time)], session_ids)

\* mutant: the working object is the stored object itself
NoCopy(heap, obj) == [heap |-> heap, ref |-> obj]

\* dict.copy(): a new object with the same items
Copy(heap, obj) == [heap |-> Append(heap, heap[obj]), ref |-> Len(heap) + 1]

\* one turn of `for event in template.decoded_events`: copy, update, append
ModifyEvent(st, event) ==
    [heap |-> [Copy(st.heap, event).heap EXCEPT
                   ![Copy(st.heap, event).ref] = Update(@, st.data)],
     data |-> st.data,
     modified_events |-> Append(st.modified_events, Copy(st.heap, event).ref)]

ModifiedEvents(heap, template, browser_time, session_ids) ==
    FoldLeft(ModifyEvent,
             [heap |-> heap, data |-> SessionData(browser_time, session_ids),
              modified_events |-> <<>>],
             template.decoded_events)

\* the query of the request: a copy of template.query_params with jzb and ct
\* written; modified holds the heap and the modified events
QueryParams(modified, template, browser_time) ==
    [heap |-> [Copy(modified.heap, template.query_params).heap EXCEPT
                   ![Copy(modified.heap, template.query_params).ref] =
                        Update(@, [k \in {"jzb", "ct"} |->
                            IF k = "jzb"
                            THEN JzbVal([i \in DOMAIN modified.modified_events |->
                                        modified.heap[modified.modified_events[i]]])
                            ELSE IntVal(browser_time)])],
     ref |-> Copy(modified.heap, template.query_params).ref]

\* send_pendo_request up to the GET: the heap it leaves and the query it sends
BuiltRequest(heap, template, browser_time, session_ids) ==
    QueryParams(ModifiedEvents(heap, template, browser_time, session_ids),
                template, browser_time)

SendInputs == [store : SendStores, sessions : 1..MaxSendSessions, base_time : 1..2]

SendIdle ==
    /\ sd_pc = "idle" /\ sd_in = <<>> /\ sd_heap = <<>> /\ sd_pos = <<>> /\ sd_sent = <<>>

SendInit ==
    /\ sd_pc = "replay" /\ sd_in \in SendInputs
    /\ sd_heap = sd_in.store.heap
    /\ sd_pos = [s \in 1..sd_in.sessions |-> 0]
    /\ sd_sent = <<>>

\* a session sends its next request: send_pendo_request runs without a
\* suspension up to the GET, so the sends of concurrent sessions interleave
\* whole; the working copies are dropped when the call returns
SendNextRequest ==
    /\ sd_pc = "replay"
    /\ \E s \in DOMAIN sd_pos :
          /\ sd_pos[s] < Len(sd_in.store.templates)
          /\ sd_heap' = SubSeq(BuiltRequest(sd_heap, sd_in.store.templates[sd_pos[s] + 1],
                                            sd_in.base_time + Len(sd_sent), SessionIds(s)).heap,
                               1, Len(sd_heap))
          /\ sd_sent' = Append(sd_sent,
                LET built == BuiltRequest(sd_heap, sd_in.store.templates[sd_pos[s] + 1],
                                          sd_in.base_time + Len(sd_sent), SessionIds(s))
                IN  built.heap[built.ref])
          /\ sd_pos' = [sd_pos EXCEPT ![s] = @ + 1]
    /\ UNCHANGED <<sd_pc, sd_in, plan_vars, codec_vars, replay_vars, run_vars, capture_vars,
                   journey_vars, record_vars>>

\* every session has sent the request of its last template
SendDone ==
    /\ sd_pc = "replay"
    /\ \A s \in DOMAIN sd_pos : sd_pos[s] = Len(sd_in.store.templates)
    /\ sd_pc' = "done"
    /\ UNCHANGED <<sd_in, sd_heap, sd_pos, sd_sent,
                   plan_vars, codec_vars, replay_vars, run_vars, capture_vars,
                   journey_vars, record_vars>>

SendNext == SendNextRequest \/ SendDone

(***************************************************************************)
(* Replay, the sessions: PendoReplay.bulk_replay materializes the sessions *)
(* of a path (base timestamp, identity), replay_user_journey dates the     *)
(* requests and send_pendo_request classifies the responses.  Times are in *)
(* milliseconds; bulk_replay runs with batch_size = 1, the default of      *)
(* record_and_replay, so the sessions replay one after the other.          *)
(***************************************************************************)
\* days_back * 24 * 60 * 60
SecondsPerDay == 86400

\* datetime.now() at the start of bulk_replay, in ms
NowSamples == {1000000000}

\* the timing_delay_ms of the stored templates: the delay_ms of the step
\* that was being recorded, 0 for a step without a wait, 1000 by default
TimingDelays == {0, 1000}

\* random.randint(0, days_back * 24 * 60 * 60): both ends are included; the
\* draws next to the two ends of the range
RandomSecondsBack(days_back) ==
    {0, 1, days_back * SecondsPerDay - 1, days_back * SecondsPerDay}

\* template.timing_delay_ms or random.randint(1000, 4000)
DelayMs(timing_delay_ms) ==
    IF timing_delay_ms # 0 THEN {timing_delay_ms} ELSE {1000, 4000}

\* random_string(length): the value of the given draw of the random source;
\* two draws give two strings
RandomString(draw) == [random |-> draw]

\* mutant: the identity is generated once, before the loop over the users
GenerateOnce(call) ==
    [k \in {"visitor_id", "session_id", "tab_id", "frame_id", "account_id"} |->
        IF k = "account_id" THEN StrVal("demo_account")
        ELSE IF k = "visitor_id" THEN RandomString(1)
        ELSE IF k = "session_id" THEN RandomString(2)
        ELSE IF k = "tab_id" THEN RandomString(3)
        ELSE RandomString(4)]

\* generate_user_session_ids(), its call-th call: four draws and the constant
\* account
GenerateUserSessionIds(call) ==
    [k \in {"visitor_id", "session_id", "tab_id", "frame_id", "account_id"} |->
        IF k = "account_id" THEN StrVal("demo_account")
        ELSE IF k = "visitor_id" THEN RandomString(4 * call - 3)
        ELSE IF k = "session_id" THEN RandomString(4 * call - 2)
        ELSE IF k = "tab_id" THEN RandomString(4 * call - 1)
        ELSE RandomString(4 * call)]

\* (path_templates, user_timestamp, session_ids, path_id) of all_sessions,
\* with the draw it was dated from
MaterializedSession(now, random_seconds_back, session_ids) ==
    [user_timestamp |-> now - random_seconds_back * 1000,
     random_seconds_back |-> random_seconds_back,
     session_ids |-> session_ids]

\* sum(len(t.decoded_events) for t in path_templates) on stored templates
TotalStoredEvents(path_templates) ==
    SumSeq([i \in DOMAIN path_templates |-> Len(path_templates[i].decoded_events)])

\* random.shuffle(all_sessions)
ShuffledSessions(all_sessions) ==
    {[i \in DOMAIN all_sessions |-> all_sessions[p[i]]] :
        p \in {q \in [DOMAIN all_sessions -> DOMAIN all_sessions] :
                  \A i, j \in DOMAIN all_sessions : i # j => q[i] # q[j]}}

\* the message send_pendo_request prints for the response
Classified(outcome) == IF RequestFailed(outcome) THEN "failed" ELSE "successful"

NoRequest == [session |-> 0]

\* what replay_user_journey holds: the session, how many templates it has
\* sent, current_timestamp
NoJourney == [session |-> 0, sent |-> 0, current_timestamp |-> 0]

JourneyInputs ==
    [store : SendStores, user_count : 0..MaxJourneyUsers, days_back : 1..MaxDaysBack,
     timing_delay_ms : TimingDelays, now : NowSamples]

JourneyIdle ==
    /\ jn_pc = "idle" /\ jn_in = <<>> /\ jn_calls = 0 /\ jn_sessions = <<>>
    /\ jn_cur = NoJourney /\ jn_last = NoRequest

JourneyInit ==
    /\ jn_pc = "sessions" /\ jn_in \in JourneyInputs
    /\ jn_calls = 0 /\ jn_sessions = <<>>
    /\ jn_cur = NoJourney /\ jn_last = NoRequest

\* one turn of `for i in range(user_count)`: the offset is drawn, the
\* identity generated, the session appended
MaterializeSession ==
    /\ jn_pc = "sessions"
    /\ TotalStoredEvents(jn_in.store.templates) # 0
    /\ Len(jn_sessions) < jn_in.user_count
    /\ \E random_seconds_back \in RandomSecondsBack(jn_in.days_back) :
          jn_sessions' = Append(jn_sessions,
              MaterializedSession(jn_in.now, random_seconds_back,
                                  GenerateUserSessionIds(jn_calls + 1)))
    /\ jn_calls' = jn_calls + 1
    /\ UNCHANGED <<jn_pc, jn_in, jn_cur, jn_last,
                   plan_vars, codec_vars, replay_vars, run_vars, capture_vars, send_vars, record_vars>>

\* the path has no events and is skipped, or its loop has ended: the
\* sessions are shuffled and the batch loop starts
ShuffleSessions ==
    /\ jn_pc = "sessions"
    /\ \/ TotalStoredEvents(jn_in.store.templates) = 0
       \/ Len(jn_sessions) = jn_in.user_count
    /\ jn_sessions' \in ShuffledSessions(jn_sessions)
    /\ jn_pc' = "replay"
    /\ UNCHANGED <<jn_in, jn_calls, jn_cur, jn_last,
                   plan_vars, codec_vars, replay_vars, run_vars, capture_vars, send_vars, record_vars>>

\* the task of the next batch starts: current_timestamp = user_base_timestamp
StartJourney ==
    /\ jn_pc = "replay"
    /\ jn_cur.sent = (IF jn_cur.session = 0 THEN 0 ELSE Len(jn_in.store.templates))
    /\ jn_cur.session < Len(jn_sessions)
    /\ jn_cur' = [session |-> jn_cur.session + 1, sent |-> 0,
                  current_timestamp |-> jn_sessions[jn_cur.session + 1].user_timestamp]
    /\ UNCHANGED <<jn_pc, jn_in, jn_calls, jn_sessions, jn_last,
                   plan_vars, codec_vars, replay_vars, run_vars, capture_vars, send_vars, record_vars>>

\* one turn of the loop of replay_user_journey: the delay is added, the
\* request built, sent and its response classified
SendTemplate ==
    /\ jn_pc = "replay" /\ jn_cur.session # 0
    /\ jn_cur.sent < Len(jn_in.store.templates)
    /\ \E delay \in DelayMs(jn_in.timing_delay_ms), outcome \in Outcomes :
          /\ jn_cur' = [jn_cur EXCEPT !.sent = @ + 1, !.current_timestamp = @ + delay]
          /\ jn_last' =
                LET built == BuiltRequest(jn_in.store.heap,
                                          SortedTemplates(jn_in.store.templates)[jn_cur.sent + 1],
                                          jn_cur.current_timestamp + delay,
                                          jn_sessions[jn_cur.session].session_ids)
                IN  [session |-> jn_cur.session, query |-> built.heap[built.ref],
                     outcome |-> outcome, classified |-> Classified(outcome)]
    /\ UNCHANGED <<jn_pc, jn_in, jn_calls, jn_sessions,
                   plan_vars, codec_vars, replay_vars, run_vars, capture_vars, send_vars, record_vars>>

\* the last batch is done
JourneysDone ==
    /\ jn_pc = "replay"
    /\ jn_cur.session = Len(jn_sessions)
    /\ jn_cur.sent = (IF jn_cur.session = 0 THEN 0 ELSE Len(jn_in.store.templates))
    /\ jn_pc' = "done"
    /\ UNCHANGED <<jn_in, jn_calls, jn_sessions, jn_cur, jn_last,
                   plan_vars, codec_vars, replay_vars, run_vars, capture_vars, send_vars, record_vars>>

JourneyNext == MaterializeSession \/ ShuffleSessions \/ StartJourney \/ SendTemplate \/ JourneysDone

(***************************************************************************)
(* Recording, the steps: simulate.py, Simulator.record_workflow_templates  *)
(* runs the steps of every path in the browser and keeps                   *)
(* failed_actions_log.  A step is given with what the page does to it.     *)
(***************************************************************************)
RecordPathIds == 1..2

\* a step of a path and how the page answers: raises (the wait for the
\* selector, the click, the fill or the navigation raises), located
\* (page.query_selector returns an element), listing_raises (the
\* page.query_selector_all of the failure handler raises)
Step(action, raises, located, listing_raises) ==
    [action |-> action, raises |-> raises, located |-> located,
     listing_raises |-> listing_raises]

StepShapes ==
    {Step("click", FALSE, TRUE, FALSE), Step("click", TRUE, FALSE, FALSE),
     Step("click", TRUE, FALSE, TRUE), Step("click", FALSE, FALSE, FALSE),
     Step("type", TRUE, FALSE, FALSE), Step("navigate", TRUE, FALSE, FALSE)}

StepLists == UNION {[1..n -> StepShapes] : n \in 1..MaxSteps}

\* the entry a handler appends: the step number, the action, the error text
FailureEntry(i, step, handler) ==
    [step |-> i, action |-> step.action, error |-> "error", handler |-> handler]

\* the entries one turn of the step loop appends to failed_actions_log[path_id]:
\* the handler of the click appends one and then lists the elements of the
\* page, and an exception of that listing reaches the handler of the loop
\* body, which appends another; a click whose element is not found only
\* prints; a failed fill is logged by its handler, a failed navigation by the
\* handler of the loop body
EntriesOfStep(i, step) ==
    IF step.action = "click"
    THEN IF step.raises
         THEN IF step.listing_raises
              THEN <<FailureEntry(i, step, "click_error"), FailureEntry(i, step, "step")>>
              ELSE <<FailureEntry(i, step, "click_error")>>
         ELSE <<>>
    ELSE IF step.action = "type"
    THEN IF step.raises THEN <<FailureEntry(i, step, "type_error")>> ELSE <<>>
    ELSE IF step.raises THEN <<FailureEntry(i, step, "step")>> ELSE <<>>

\* what record_workflow_templates returns: a dict with the log in test mode,
\* the number of captured paths otherwise
RecordingReturned(test_mode, captured, failed_actions_log) ==
    IF test_mode
    THEN [is_dict |-> TRUE, templates_recorded |-> captured,
          failed_actions |-> failed_actions_log, test_mode |-> TRUE]
    ELSE [is_dict |-> FALSE, count |-> captured]

RecordInputs ==
    [test_mode : BOOLEAN, captured : {1}, paths : [RecordPathIds -> StepLists]]

RecordIdle ==
    /\ rc_pc = "idle" /\ rc_in = <<>> /\ rc_path = 0 /\ rc_turns = <<>>
    /\ rc_log = <<>> /\ rc_result = <<>>

RecordInit ==
    /\ rc_pc = "path" /\ rc_in \in RecordInputs /\ rc_path = 1
    /\ rc_turns = [p \in {} |-> 0] /\ rc_log = [p \in {} |-> <<>>]
    /\ rc_result = <<>>

\* a turn of `for path in user_journey_paths` starts: the page is opened
\* and failed_actions_log[path_id] = []
RecordPathStart ==
    /\ rc_pc = "path" /\ rc_path \in RecordPathIds
    /\ rc_log' = [p \in DOMAIN rc_log \cup {rc_path} |-> IF p = rc_path THEN <<>> ELSE rc_log[p]]
    /\ rc_turns' = [p \in DOMAIN rc_turns \cup {rc_path} |-> IF p = rc_path THEN 0 ELSE rc_turns[p]]
    /\ rc_pc' = "steps"
    /\ UNCHANGED <<rc_in, rc_path, rc_result,
                   plan_vars, codec_vars, replay_vars, run_vars, capture_vars, send_vars,
                   journey_vars>>

\* one turn of `for i, step in enumerate(steps, 1)`
RecordStep ==
    /\ rc_pc = "steps" /\ rc_turns[rc_path] < Len(rc_in.paths[rc_path])
    /\ rc_log' = [rc_log EXCEPT ![rc_path] =
                    @ \o EntriesOfStep(rc_turns[rc_path] + 1,
                                       rc_in.paths[rc_path][rc_turns[rc_path] + 1])]
    /\ rc_turns' = [rc_turns EXCEPT ![rc_path] = @ + 1]
    /\ UNCHANGED <<rc_pc, rc_in, rc_path, rc_result,
                   plan_vars, codec_vars, replay_vars, run_vars, capture_vars, send_vars,
                   journey_vars>>

\* the steps of the path are done: final wait, page.close(), next path
RecordPathEnd ==
    /\ rc_pc = "steps" /\ rc_turns[rc_path] = Len(rc_in.paths[rc_path])
    /\ rc_path' = rc_path + 1
    /\ rc_pc' = "path"
    /\ UNCHANGED <<rc_in, rc_turns, rc_log, rc_result,
                   plan_vars, codec_vars, replay_vars, run_vars, capture_vars, send_vars,
                   journey_vars>>

\* after the last path: the report is printed and the result returned
RecordReturn ==
    /\ rc_pc = "path" /\ rc_path \notin RecordPathIds
    /\ rc_result' = RecordingReturned(rc_in.test_mode, rc_in.captured, rc_log)
    /\ rc_pc' = "done"
    /\ UNCHANGED <<rc_in, rc_path, rc_turns, rc_log,
                   plan_vars, codec_vars, replay_vars, run_vars, capture_vars, send_vars,
                   journey_vars>>

RecordNext == RecordPathStart \/ RecordStep \/ RecordPathEnd \/ RecordReturn

(***************************************************************************)
(* Specifications                                                          *)
(***************************************************************************)
InitPlan == PlanInit /\ CodecIdle /\ ReplayIdle /\ RunIdle /\ CaptureIdle /\ SendIdle /\ JourneyIdle
    /\ RecordIdle

SpecPlan == InitPlan /\ [][PlanNext]_vars

InitCodec == CodecInit /\ PlanIdle /\ ReplayIdle /\ RunIdle /\ CaptureIdle /\ SendIdle /\ JourneyIdle
    /\ RecordIdle

SpecCodec == InitCodec /\ [][CodecNext]_vars

InitReplay == ReplayInit /\ PlanIdle /\ CodecIdle /\ RunIdle /\ CaptureIdle /\ SendIdle /\ JourneyIdle
    /\ RecordIdle

SpecReplay == InitReplay /\ [][ReplayNext]_vars

InitRun == RunInit /\ PlanIdle /\ CodecIdle /\ ReplayIdle /\ CaptureIdle /\ SendIdle /\ JourneyIdle
    /\ RecordIdle

SpecRun == InitRun /\ [][RunNext]_vars

InitCapture == PlanIdle /\ CodecIdle /\ ReplayIdle /\ RunIdle /\ CaptureInit /\ SendIdle /\ JourneyIdle
    /\ RecordIdle
SpecCapture == InitCapture /\ [][CaptureNext]_vars

InitSend == PlanIdle /\ CodecIdle /\ ReplayIdle /\ RunIdle /\ CaptureIdle /\ SendInit /\ JourneyIdle
    /\ RecordIdle
SpecSend == InitSend /\ [][SendNext]_vars

InitJourney ==
    PlanIdle /\ CodecIdle /\ ReplayIdle /\ RunIdle /\ CaptureIdle /\ SendIdle /\ JourneyInit
        /\ RecordIdle
SpecJourney == InitJourney /\ [][JourneyNext]_vars

InitRecord ==
    PlanIdle /\ CodecIdle /\ ReplayIdle /\ RunIdle /\ CaptureIdle /\ SendIdle /\ JourneyIdle
        /\ RecordInit
SpecRecord == InitRecord /\ [][RecordNext]_vars

(***************************************************************************)
(* Claims                                                                  *)
(***************************************************************************)
\* the input holds at least one positive weight: a path percentage (flat), or
\* a segment percentage and a path preference (segmented, account-based)
PositiveWeights(in) ==
    IF in.kind = "legacy"
    THEN \E p \in DOMAIN in.paths : in.paths[p] # None /\ in.paths[p] > 0
    ELSE /\ \E k \in DOMAIN in.segs : in.segs[k].pct > 0
         /\ \E k \in DOMAIN in.segs : \E p \in DOMAIN in.segs[k].prefs : in.segs[k].prefs[p] > 0

PlannedRequests(plan, captured) ==
    SumFun([p \in DOMAIN plan |-> plan[p] * captured[p]])

\* C2: a full (non-test) run where recording stored templates for every
\* planned path issues exactly sum(plan[path] x templates of path) outbound
\* GET requests.
C2_RequestsIssued ==
    (/\ rn_pc = "done" /\ rn_result.returned /\ ~rn_in.test_mode /\ rn_replay
     /\ \A p \in DOMAIN rn_plan : rn_plan[p] > 0 => rn_in.captured[p] > 0)
        => rn_requests = PlannedRequests(rn_plan, rn_in.captured)

\* C3: a full (non-test) run in which at least one template was recorded
\* returns a result with success = true, whatever the network does.
C3_RunSucceeds ==
    (/\ rn_pc = "done" /\ rn_result.returned /\ ~rn_in.test_mode
     /\ rn_recording.templates_recorded >= 1)
        => rn_result.success

\* the batch a session of all_sessions falls in, counted from 1
BatchOf(s) == (s - 1) \div rp_in.batch_size + 1

\* ceil(n / b)
CeilDiv(n, b) == (n + b - 1) \div b

\* C4: for n materialized sessions and batch_size b >= 1, bulk_replay
\* dispatches exactly ceil(n/b) batches one after the other, and no session of
\* a batch starts before every session of the batches before it has finished.
C4_BatchesInSequence ==
    /\ \A s, t \in DOMAIN rp_sessions :
          (BatchOf(s) < BatchOf(t) /\ rp_sessions[t].status # "waiting")
              => rp_sessions[s].status = "finished"
    /\ rp_pc = "gather" => rp_batches = BatchOf(rp_next + 1)
    /\ rp_pc = "done" => rp_batches = CeilDiv(Len(rp_sessions), rp_in.batch_size)

\* witness of C4: three or more sessions went through in batches of two, the
\* last batch not full, and some of them met failures
C4_Witness ==
    /\ rp_pc = "done" /\ rp_in.batch_size = 2 /\ Len(rp_sessions) >= 3
    /\ Len(rp_sessions) % 2 = 1 /\ rp_batches = 2 /\ rp_failed >= 1

\* every event of every template of the path is a dict
WellFormed(path_templates) ==
    \A i \in DOMAIN path_templates : path_templates[i].dicts

\* the sequence_order of the requests a whole session of the path sends
PlannedOrders(path_templates) ==
    [i \in DOMAIN path_templates |-> SortedTemplates(path_templates)[i].sequence_order]

\* C5: a network failure (a status other than success, or a transport error)
\* on one request does not prevent the remaining templates of the session,
\* the remaining sessions of the batch or any later batch: when bulk_replay
\* is over, every session has issued the request of every one of its templates.
C5_FailuresDoNotAbort ==
    rp_pc = "done" =>
        \A s \in DOMAIN rp_sessions :
            WellFormed(rp_in.templates[rp_sessions[s].path])
                => rp_sessions[s].sent = PlannedOrders(rp_in.templates[rp_sessions[s].path])

\* witness of C5: a replay of two batches is over, in which at least two
\* requests failed and the last session sent two requests
C5_Witness ==
    /\ rp_pc = "done" /\ rp_batches >= 2 /\ rp_failed >= 2
    /\ Len(rp_sessions[Len(rp_sessions)].sent) = 2

\* C6: every failed outbound request is counted and the final report of the
\* replay carries the count: after k failed requests it reports k.
C6_FailuresReported ==
    (rp_pc = "done" /\ rp_failed > 0) => rp_report.value = rp_failed

\* no alternative gives a string, or the string does not parse as JSON
NoJson(json_string) == ~json_string.some \/ ~JsonLoads(json_string.text).ok

NoEvents(base64_decoded) == ~base64_decoded.ok \/ NoJson(JsonString(base64_decoded.val))

\* decode_jzb has nothing to return for the raw string: base64 refuses it, no
\* alternative gives a string, or the string does not parse as JSON
Unrecoverable(raw) == NoEvents(Base64Decoded(raw))

\* a string was found and json.loads refuses it
RefusedJson(json_string) == ~Not(json_string) /\ ~JsonLoads(json_string.text).ok

RefusedBytes(base64_decoded) == base64_decoded.ok /\ RefusedJson(JsonString(base64_decoded.val))

\* C7: for every list x of event records, decode_jzb(encode_to_jzb(x)) returns
\* x: the same records in the same order, with the same keys and values.
C7_RoundTrip ==
    (cd_pc = "decoded" /\ cd_src = "events") => cd_out = Return(cd_events)

\* witness of C7: a list of two different records, one of them holding a
\* string that needs escaping, went through encode and decode
C7_Witness ==
    /\ cd_pc = "decoded" /\ cd_src = "events" /\ Len(cd_events) = 2
    /\ cd_events[1] # cd_events[2]
    /\ \E k \in EventKeys : cd_events[1] = JDict(<<JPair(k, JStr(<<34, 92, 233, 10>>))>>)
    /\ Len(cd_raw) > 0

\* C8: decode_jzb never raises, and returns the empty list for an input that
\* cannot be base64-decoded, that no alternative decompresses or reads as
\* UTF-8, or that does not parse as JSON.
C8_DecodeNeverRaises ==
    cd_pc = "decoded"
        => /\ ~cd_out.raised
           /\ Unrecoverable(cd_raw) => cd_out.val = <<>>

\* witness of C8: a raw string that base64 accepts and that reads as UTF-8, but
\* whose text json.loads refuses, was decoded
C8_Witness ==
    cd_pc = "decoded" /\ cd_src = "raw" /\ RefusedBytes(Base64Decoded(cd_raw))

\* C9: if recording captured zero templates for the whole workflow,
\* record_and_replay returns success = false with an error message, and the
\* replay phase is never entered: no outbound request is sent.
C9_NoTemplatesIsFatal ==
    (rn_pc = "done" /\ rn_result.returned /\ TemplatesRecorded(rn_in.captured) = 0)
        => /\ ~rn_result.success /\ rn_result.error # ""
           /\ ~rn_replay /\ rn_requests = 0

\* witness of C9: a normal run and nothing captured, with users to replay
C9_Witness ==
    /\ rn_pc = "done" /\ rn_result.returned /\ ~rn_in.test_mode
    /\ \A p \in RunPaths : rn_in.captured[p] = 0
    /\ rn_in.total_users > 0

\* the path has no stored template, or its templates hold no event
NoUsableTemplates(templates, path_id) ==
    \/ path_id \notin DOMAIN templates
    \/ \A i \in DOMAIN templates[path_id] : templates[path_id][i].events = 0

SessionsOfPath(path_id) == {s \in DOMAIN rp_sessions : rp_sessions[s].path = path_id}

\* C10: in bulk_replay a path of the plan that has no stored templates, or
\* whose templates hold no events, contributes no session and no request and
\* raises no error, and the sessions of all other paths are still replayed.
C10_MissingTemplatesSkipped ==
    rp_pc = "done" =>
        /\ rp_report.returned /\ ~rp_report.raised
        /\ \A p \in ReplayPaths :
              IF NoUsableTemplates(rp_in.templates, p)
              THEN SessionsOfPath(p) = {}
              ELSE /\ Cardinality(SessionsOfPath(p)) = rp_in.plan[p]
                   /\ \A s \in SessionsOfPath(p) : rp_sessions[s].status = "finished"
                   /\ \A s \in SessionsOfPath(p) :
                         WellFormed(rp_in.templates[p])
                             => Len(rp_sessions[s].sent) = Len(rp_in.templates[p])

\* witness of C10: the plan gives users to a path whose only template holds no
\* event and to a path with two templates, and the replay is over
C10_Witness ==
    /\ rp_pc = "done" /\ rp_in.plan[1] > 0 /\ rp_in.plan[2] > 0
    /\ 1 \in DOMAIN rp_in.templates /\ rp_in.templates[1] = <<Template(0, 0, TRUE)>>
    /\ 2 \in DOMAIN rp_in.templates /\ Len(rp_in.templates[2]) = 2
    /\ \A s \in DOMAIN rp_sessions : Len(rp_sessions[s].sent) = 2
    /\ Len(rp_sessions) = rp_in.plan[2]

\* C11: execute_workflow always returns a DirectExecutionResponse whose success
\* field tells success from failure, for every outcome of recording, planning
\* and replay, exceptions included; no exception leaves it.
C11_AlwaysResponds ==
    rn_pc = "responded" =>
        /\ rn_response.returned /\ ~rn_response.raised
        /\ rn_response.success <=> (rn_result.returned /\ rn_result.success)

\* witness of C11: a planner raised inside bulk_simulate, and the response came
C11_Witness ==
    /\ rn_pc = "responded" /\ rn_replay /\ rn_result.raised /\ rn_in.total_users > 0

\* C12: in test mode the response of execute_workflow always carries the
\* failures collected during recording, whatever its success value is, also
\* when the run failed because no templates were recorded.
C12_FailedActionsCarried ==
    (rn_pc = "responded" /\ rn_in.test_mode /\ rn_result.returned)
        => rn_response.failed_actions = FailedActions(rn_recording.failed_actions)

\* C13: the strategy follows what the workflow definition holds (accounts,
\* else user segments, else path weights), also for a definition submitted
\* through execute_workflow.
C13_StrategyFollowsDefinition ==
    rn_replay => rn_strategy = Strategy(rn_in.user_segments, rn_in.accounts)

\* the counts the planner of an input holds after its floor allocation
FloorsOf(in) ==
    IF in.kind = "legacy" THEN LegacyFloors(in.user_count, in.paths)
    ELSE IF in.kind = "segment" THEN SegmentFloors(in.user_count, in.segs, DOMAIN in.paths)
    ELSE AccountFloors(in.user_count, in.accts, in.segs, DOMAIN in.paths)

\* q holds the largest count of floors and no earlier path holds as much
FirstLargest(floors, q) ==
    /\ \A j \in DOMAIN floors : floors[j] <= floors[q]
    /\ \A j \in DOMAIN floors : j < q => floors[j] < floors[q]

\* plan is floors with remainder added to the first largest path
FloorsPlus(plan, floors, remainder) ==
    /\ DOMAIN plan = DOMAIN floors
    /\ \A p \in DOMAIN plan : plan[p] >= 0
    /\ remainder = 0 => plan = floors
    /\ remainder # 0 =>
           \E q \in DOMAIN floors :
               /\ FirstLargest(floors, q)
               /\ plan[q] = floors[q] + remainder
               /\ \A p \in DOMAIN floors \ {q} : plan[p] = floors[p]

\* plan is floors with the whole remainder, total minus the sum of floors, on
\* the first largest path
RemainderOnLargest(plan, floors, total) ==
    FloorsPlus(plan, floors, total - SumFun(floors))

\* C14: the plan a planner returns is its floor allocation with the whole
\* remainder (total minus the sum of the counts) added to one path, the first
\* path that holds the largest count; every other count is unchanged and no
\* count is negative.
C14_RemainderToLargest ==
    (pl_pc = "done" /\ ~pl_out.err)
        => RemainderOnLargest(pl_out.plan, FloorsOf(pl_in), pl_in.user_count)

\* witness of C14: weights [33, 33, 34] and total 10; the three floors tie at
\* 3 and the first path absorbs the remainder 1
C14_Witness ==
    /\ pl_pc = "done" /\ ~pl_out.err
    /\ pl_in.user_count = 10 /\ pl_in.paths = <<33, 33, 34>>
    /\ pl_out.plan = <<4, 3, 3>>

\* the count path p has in a plan that may hold no entry for it
CountIn(plan, p) == IF p \in DOMAIN plan THEN plan[p] ELSE 0

\* total * weight / sum_weights is an integer for every path with a weight
DividesEvenly(user_count, paths) ==
    LET weighted == {p \in DOMAIN paths : paths[p] # None}
        sum_weights == SumFun([p \in weighted |-> paths[p]])
    IN  /\ sum_weights > 0
        /\ \A p \in weighted : (user_count * paths[p]) % sum_weights = 0

\* the exact quotients total * weight / sum_weights, null weights excluded
ExactShares(user_count, paths) ==
    LET weighted == {p \in DOMAIN paths : paths[p] # None}
        sum_weights == SumFun([p \in weighted |-> paths[p]])
    IN  [p \in weighted |-> (user_count * paths[p]) \div sum_weights]

\* C15: in the flat strategy, whenever total * weight / sum_weights is an
\* integer for every path with a non-null weight, the plan holds exactly
\* those values (weights [50, 30, 20], total 100 gives [50, 30, 20]).
C15_FlatProportional ==
    (pl_pc = "done" /\ pl_in.kind = "legacy" /\ ~pl_out.err
        /\ DividesEvenly(pl_in.user_count, pl_in.paths))
        => \A p \in DOMAIN ExactShares(pl_in.user_count, pl_in.paths) :
               CountIn(pl_out.plan, p) = ExactShares(pl_in.user_count, pl_in.paths)[p]

\* the invocations of intercept_for_path that have returned
ReturnedCalls ==
    {r \in DOMAIN cp_calls :
        cp_in.handler = "intercept_for_path" /\ cp_calls[r].returned}

\* C16: intercept_pendo_request returns true exactly when the URL matches the
\* vendor pattern; every call that returns true has appended exactly one
\* template to the store of the path, every call that returns false none.
C16_TrueMeansStored ==
    \A r \in ReturnedCalls :
        /\ cp_calls[r].value <=> cp_in.requests[r].vendor
        /\ cp_calls[r].value => cp_calls[r].stored = 1
        /\ ~cp_calls[r].value => cp_calls[r].stored = 0

\* C17: every intercepted request is continued exactly once and without
\* overrides by both handlers, on every branch (vendor request with a payload,
\* without one, another request, an error while capturing); no invocation
\* ends without the continue and none continues twice.
C17_ContinuedOnce ==
    \A r \in DOMAIN cp_calls :
        /\ Len(cp_calls[r].continued) <= 1
        /\ cp_calls[r].status = "finished"
              => cp_calls[r].continued = <<[overrides |-> FALSE]>> /\ ~cp_calls[r].raised

\* witness of C17: _handle_request has handled a vendor request whose capture
\* failed and a request of another host, and continued each of them
C17_Witness ==
    /\ cp_pc = "done" /\ cp_in.handler = "_handle_request"
    /\ \E r, q \in DOMAIN cp_calls :
          /\ cp_in.requests[r].vendor /\ cp_in.requests[r].fails
          /\ ~cp_in.requests[q].vendor
          /\ Len(cp_calls[r].continued) = 1 /\ Len(cp_calls[q].continued) = 1

\* the sequence_order of the requests a session has sent rises strictly
StrictlyAscending(sent) ==
    \A i, j \in DOMAIN sent : i < j => sent[i] < sent[j]

\* C18: within one session replay_user_journey issues one request per
\* template, in strictly ascending sequence_order, each after the previous
\* one has completed.
C18_StrictOrder ==
    \A s \in DOMAIN rp_sessions :
        /\ StrictlyAscending(rp_sessions[s].sent)
        /\ (rp_pc = "done" /\ WellFormed(rp_in.templates[rp_sessions[s].path]))
               => Len(rp_sessions[s].sent) = Len(rp_in.templates[rp_sessions[s].path])

\* C19: replaying any number of sessions leaves every object of the stored
\* templates (query_params and every record of decoded_events) as it was
\* stored.
C19_TemplatesUnchanged ==
    sd_pc # "idle" => sd_heap = sd_in.store.heap

\* witness of C19: two sessions have replayed two templates that share an event
\* record, and the requests carry the substituted identities and times
C19_Witness ==
    /\ sd_pc = "done" /\ sd_in.sessions = 2 /\ Len(sd_sent) = 4
    /\ Len(sd_in.store.templates) = 2 /\ sd_in.store.templates[2].decoded_events = <<2, 2>>
    /\ \E i, j \in DOMAIN sd_sent :
          /\ sd_sent[i].jzb.jzb[1].visitor_id = [str |-> "first"]
          /\ sd_sent[j].jzb.jzb[1].visitor_id = [str |-> "second"]
          /\ sd_sent[i].ct # sd_sent[j].ct
          /\ sd_sent[i].v = sd_heap[1].v

\* the sequence_order of the templates stored for the recorded path
StoredOrders ==
    [i \in DOMAIN TemplatesOf(cp_captured, cp_in.path_id) |->
        TemplatesOf(cp_captured, cp_in.path_id)[i].sequence_order]

\* C20: after requests handled one at a time while one path is recorded, the
\* templates stored for the path hold the sequence_order 0, 1, ..., n-1 in
\* storage order, whatever mix of requests occurred.
C20_DenseOrders ==
    (cp_in # <<>> /\ cp_in.handler = "intercept_for_path" /\ cp_in.serial)
        => \A i \in DOMAIN StoredOrders : StoredOrders[i] = i - 1

\* C21: when invocations of intercept_for_path for one path overlap (a second
\* one starts while the first is suspended in route.continue_(), before
\* `sequence` is incremented), the templates they store still hold distinct
\* sequence_order values.
C21_DistinctOrders ==
    (cp_in # <<>> /\ cp_in.handler = "intercept_for_path")
        => \A i, j \in DOMAIN StoredOrders : i < j => StoredOrders[i] # StoredOrders[j]

\* the sessions whose replay has started and not finished: those that have
\* sent a request and have more to send, and those handed to gather that have
\* not yet sent their first request
InFlight ==
    {s \in DOMAIN rp_sessions :
        \/ rp_sessions[s].status = "running"
        \/ /\ rp_pc = "gather" /\ rp_sessions[s].status = "waiting"
           /\ rp_next < s /\ s <= rp_next + rp_in.batch_size}

\* C22: at every moment of bulk_replay at most batch_size sessions have
\* started their replay and not yet finished it.
C22_PeakConcurrency ==
    rp_in # <<>> => Cardinality(InFlight) <= rp_in.batch_size

\* witness of C22: in a replay of three or more sessions in batches of two,
\* both sessions of a batch are between two of their requests
C22_Witness ==
    /\ rp_pc = "gather" /\ rp_in.batch_size = 2 /\ Len(rp_sessions) >= 3
    /\ Cardinality({s \in DOMAIN rp_sessions : rp_sessions[s].status = "running"}) = 2

\* C23: for every strategy and every input the planner returns, without
\* raising, a plan whose counts sum exactly to the total.
C23_ExactSumUnconditional ==
    pl_pc = "done" => ~pl_out.err /\ SumFun(pl_out.plan) = pl_in.user_count

\* floor(n * w / s) on integers
ExactFloor(n, w, s) == (n * w) \div s

\* the sum over the segments naming path p of
\* floor(segment_population * preference / preference_sum)
ExactSegmentShare(user_count, segs, p) ==
    SumSeq([k \in DOMAIN segs |->
        IF p \in DOMAIN segs[k].prefs
        THEN ExactFloor(ExactFloor(user_count, segs[k].pct, TotalSegmentPercentage(segs)),
                        segs[k].prefs[p], SumFun(segs[k].prefs))
        ELSE 0])

\* C24: in the segmented strategy each path's count before the correction is
\* the sum, over the segments whose path_preferences name the path, of
\* floor(segment_population * preference / preference_sum).
C24_SegmentFloorsExact ==
    (pl_pc = "done" /\ pl_in.kind = "segment"
        /\ ~SegmentRaises(pl_in.user_count, pl_in.segs, DOMAIN pl_in.paths))
        => \A p \in DOMAIN pl_in.paths :
              SegmentFloors(pl_in.user_count, pl_in.segs, DOMAIN pl_in.paths)[p]
                  = ExactSegmentShare(pl_in.user_count, pl_in.segs, p)

\* C25: every materialized session was dated from an offset in
\* [0, days_back * 86400), so that now - days_back * 86400 s < t <= now.
C25_OffsetHalfOpen ==
    \A s \in DOMAIN jn_sessions :
        /\ 0 <= jn_sessions[s].random_seconds_back
        /\ jn_sessions[s].random_seconds_back < jn_in.days_back * SecondsPerDay
        /\ jn_in.now - jn_in.days_back * SecondsPerDay * 1000 < jn_sessions[s].user_timestamp
        /\ jn_sessions[s].user_timestamp <= jn_in.now

\* the events of the request sent last
LastEvents == jn_last.query["jzb"].jzb

\* C26: the ct parameter of every request sent and the browser_time of each
\* of its events are not later than the now taken at the start of bulk_replay.
C26_NoFutureTimestamp ==
    jn_last # NoRequest =>
        /\ jn_last.query["ct"].int <= jn_in.now
        /\ \A i \in DOMAIN LastEvents : LastEvents[i]["browser_time"].int <= jn_in.now

\* C27: a request is classified as successful exactly when its response has
\* a status in 200..299; any other status and a transport error are failures.
C27_SuccessIs2xx ==
    jn_last # NoRequest =>
        (jn_last.classified = "successful"
            <=> (~jn_last.outcome.error
                    /\ 200 <= jn_last.outcome.status /\ jn_last.outcome.status <= 299))

IdentityKeys == {"visitor_id", "session_id", "tab_id", "frame_id", "account_id"}

\* C28: every session has the identity of one generation call made for it
\* alone, no two sessions have the same identity, and every event of every
\* request of a session carries the five ids of the session's identity.
C28_OwnIdentity ==
    /\ jn_calls = Len(jn_sessions)
    /\ \A s \in DOMAIN jn_sessions :
           \E call \in 1..jn_calls : jn_sessions[s].session_ids = GenerateUserSessionIds(call)
    /\ \A r, s \in DOMAIN jn_sessions :
           r # s => \A k \in IdentityKeys \ {"account_id"} :
                      jn_sessions[r].session_ids[k] # jn_sessions[s].session_ids[k]
    /\ jn_last # NoRequest =>
           \A i \in DOMAIN LastEvents : \A k \in IdentityKeys :
               LastEvents[i][k] = jn_sessions[jn_last.session].session_ids[k]

\* witness of C28: the second of two sessions has sent a request that holds
\* an event
C28_Witness ==
    /\ Len(jn_sessions) = 2 /\ jn_last # NoRequest
    /\ jn_last.session = 2 /\ Len(LastEvents) >= 1

\* the first of two alternatives that yields text
FirstText(first, later) == IF first.unk \/ first.ok THEN first ELSE later

\* the text of the first alternative that yields UTF-8 text, in the order
\* zlib with header, raw deflate, raw deflate after two skipped bytes, gzip,
\* the bytes themselves
FirstInStatedOrder(bytes) ==
    FirstText(DecodedText(ZlibDecompress(bytes, 15)),
    FirstText(DecodedText(ZlibDecompress(bytes, 0 - 15)),
    FirstText(DecodedText(ZlibDecompress(SubSeq(bytes, 3, Len(bytes)), 0 - 15)),
    FirstText(DecodedText(GzipDecompress(bytes)),
              Utf8Decode(bytes)))))

\* the events of that text: none when no alternative yields text or the text
\* is not JSON
EventsOfFirstText(text) ==
    IF text.unk THEN UnknownOutcome
    ELSE IF ~text.ok THEN Return(<<>>)
    ELSE CatchAll(ParsedEvents(JsonLoads(text.val)))

\* C29: decode_jzb returns the events of the first alternative that yields
\* UTF-8 text, in the order zlib with header, raw deflate, raw deflate after
\* two skipped bytes, gzip, plain UTF-8; no later alternative is used when an
\* earlier one has succeeded.
C29_FirstAlternativeWins ==
    (cd_pc = "decoded" /\ Base64Decoded(cd_raw).ok)
        => LET stated == EventsOfFirstText(FirstInStatedOrder(Base64Decoded(cd_raw).val))
           IN  stated.unk \/ cd_out = stated

\* the step fails: its interaction raises, or its element is not located
StepFails(step) == step.raises \/ (step.action = "click" /\ ~step.located)

\* C30: every step whose action fails adds one failure entry with its step
\* number and action to the log of its path, every step of every path is run,
\* and the log is returned to the caller.
C30_FailuresLoggedAndReturned ==
    rc_pc = "done" =>
        /\ \A p \in RecordPathIds :
              /\ rc_turns[p] = Len(rc_in.paths[p])
              /\ \A i \in DOMAIN rc_in.paths[p] :
                    Cardinality({k \in DOMAIN rc_log[p] :
                                    /\ rc_log[p][k].step = i
                                    /\ rc_log[p][k].action = rc_in.paths[p][i].action})
                        = (IF StepFails(rc_in.paths[p][i]) THEN 1 ELSE 0)
        /\ rc_result.is_dict /\ rc_result.failed_actions = rc_log

====
